---- MODULE Spec2Model ----
(***************************************************************************)
(* Market State Engine of agro-alert (backend/market_state.py) together    *)
(* with the two HTTP handlers of backend/server.py that drive it.          *)
(*                                                                         *)
(* Prices are counted in the rounding quantum of round(x, 2), arrivals in  *)
(* quintals.  Dict records always carry every field, so the .get(...)      *)
(* defaults of the source are never taken, except where a whole commodity  *)
(* record or a history sequence is absent.                                 *)
(***************************************************************************)
EXTENDS Integers, Sequences, FiniteSets, TLC

\* ------------------------------------------------------------------ bounds
MaxArrivals == 2      \* largest arrivals / quantity an operator enters
MaxOps == 2           \* requests handled between two resets
MaxPrice == 8         \* largest price (in quanta) the model follows

\* ----------------------------------------------------------------- inputs
MandiIds == {"m1", "m2"}
MandiInputs == MandiIds \cup {"mX"}
CommodityInputs == {"onion", "Tomato"}
Today == "d1"         \* the date datetime.now() formats
Quantities == -1..MaxArrivals
ArrivalInputs ==
    [kind : {"int"}, v : -1..MaxArrivals] \cup
    {[kind |-> "none", v |-> 0], [kind |-> "text", v |-> 0]}

VARIABLES
    data,           \* the baseline held by data/mandiData.json
    market_state,   \* _market_state["mandis"], keyed by mandi id
    state_history,  \* _state_history
    pc,             \* position of the transfer handler on the event loop
    pend,           \* locals of the transfer handler while it runs
    last,           \* the last request and its outcome
    before,         \* the store as the last request found it
    okCount,        \* successful update/transfer calls since the last reset
    calls,          \* requests handled since the last reset
    BASE_DATA,      \* BASE_DATA["mandis"] of server.py, keyed by mandi id
    reply           \* the last request to an engine and the response to it

vars == <<data, market_state, state_history, pc, pend, last, before, okCount, calls, BASE_DATA, reply>>

\* ---------------------------------------------------------------- helpers
Lower(n) == CASE n = "Onion" -> "onion"
              [] n = "Tomato" -> "tomato"
              [] OTHER -> n

Commodity(n, prim, price, arr, dem) ==
    [name |-> n, isPrimary |-> prim,
     currentPrice |-> price, previousPrice |-> price,
     arrivals |-> arr, previousArrivals |-> arr,
     baseDemand |-> dem, baseSupply |-> arr]

Mandi(id, prim, coms, hasHist) ==
    [id |-> id, name |-> id, commodity |-> prim.name,
     currentPrice |-> prim.currentPrice, previousPrice |-> prim.previousPrice,
     arrivals |-> prim.arrivals, previousArrivals |-> prim.previousArrivals,
     baseDemand |-> prim.baseDemand, baseSupply |-> prim.baseSupply,
     commodities |-> coms,
     hasPriceHistory |-> hasHist, hasArrivalsHistory |-> hasHist,
     priceHistory |-> IF hasHist
                      THEN <<[date |-> "d0", price |-> prim.currentPrice]>>
                      ELSE <<>>,
     arrivalsHistory |-> IF hasHist
                         THEN <<[date |-> "d0", arrivals |-> prim.arrivals]>>
                         ELSE <<>>]

\* A baseline the JSON file may hold: m1 lists two commodities, Onion being
\* its primary one; m2 trades Tomato only and carries no Onion, either with a
\* per-commodity array (listed) or with the mandi-level fields alone.  Every
\* mandi of the baseline has a priceHistory and an arrivalsHistory.
Baseline(listed) ==
    LET on1 == Commodity("Onion", TRUE, 4, 3, 3)
        to1 == Commodity("Tomato", FALSE, 2, 2, 2)
        to2 == Commodity("Tomato", TRUE, 3, 1, 2)
    IN  [m \in MandiIds |->
            CASE m = "m1" -> Mandi("m1", on1, <<on1, to1>>, TRUE)
              [] m = "m2" -> Mandi("m2", to2,
                                   IF listed THEN <<to2>> ELSE <<>>, TRUE)]

NoLast == [op |-> "none", ok |-> TRUE, err |-> "", mandi |-> "", dest |-> "",
           commodity |-> "", n |-> 0]

NoPend == [active |-> FALSE]

\* ------------------------------------------------- market_state.py: reads
NoCommodity == Commodity("", FALSE, 0, 0, 0)

\* index of the first commodity record whose name matches, 0 when none does
FindCommodityIdx(coms, commodity_name) ==
    LET hits == {i \in 1..Len(coms) :
                    Lower(coms[i].name) = Lower(commodity_name)}
    IN  IF hits = {} THEN 0
        ELSE CHOOSE i \in hits : \A j \in hits : i <= j

get_commodity_from_mandi(mandi, commodity_name) ==
    LET i == FindCommodityIdx(mandi.commodities, commodity_name)
    IN  IF i > 0
        THEN [found |-> TRUE, c |-> mandi.commodities[i]]
        ELSE IF Lower(mandi.commodity) = Lower(commodity_name)
        THEN [found |-> TRUE,
              c |-> [name |-> mandi.commodity, isPrimary |-> TRUE,
                     currentPrice |-> mandi.currentPrice,
                     previousPrice |-> mandi.previousPrice,
                     arrivals |-> mandi.arrivals,
                     previousArrivals |-> mandi.previousArrivals,
                     baseDemand |-> mandi.baseDemand,
                     baseSupply |-> mandi.baseSupply]]
        ELSE [found |-> FALSE, c |-> NoCommodity]

get_mandi_by_id(ms, mandi_id) ==
    IF mandi_id \in DOMAIN ms
    THEN [found |-> TRUE, m |-> ms[mandi_id]]
    ELSE [found |-> FALSE, m |-> Mandi("", NoCommodity, <<>>, FALSE)]

\* --------------------------------------------------- the elasticity formula
\* ELASTICITY = 0.4 = ElasticityNum / ElasticityDen
ElasticityNum == 2
ElasticityDen == 5

RECURSIVE Pow(_, _)
Pow(x, n) == IF n = 0 THEN 1 ELSE x * Pow(x, n - 1)

\* an upper bound of current_price * (demand/supply)^0.4, kept tight so that
\* the powers below stay inside 32-bit integers
PriceCeiling(current_price, supply, demand) ==
    IF demand <= supply THEN current_price
    ELSE IF 100 * demand < 565 * supply THEN 2 * current_price
    ELSE (current_price * demand) \div supply + 1

\* round(current_price * (demand/supply)^0.4, 2): the nearest quantum x, i.e.
\* the largest x with (x - 1/2)^5 * supply^2 <= current_price^5 * demand^2
RoundedPrice(current_price, supply, demand) ==
    LET rhs == Pow(2 * current_price, ElasticityDen) * Pow(demand, ElasticityNum)
        ok(x) == Pow(2 * x - 1, ElasticityDen) * Pow(supply, ElasticityNum) <= rhs
        cand == {x \in 0..PriceCeiling(current_price, supply, demand) : ok(x)}
    IN  CHOOSE x \in cand : \A y \in cand : y <= x

compute_new_price(current_price, supply, demand) ==
    IF supply <= 0
    THEN current_price * 2
    ELSE RoundedPrice(current_price, supply, demand)

\* ------------------------------------------------------------- validation
\* variant: zero is let through (the comparison is < instead of <=)
validate_arrivals_input_nonneg(arrivals) ==
    IF arrivals.kind = "none"
    THEN [valid |-> FALSE, err |-> "Arrivals is required", value |-> 0]
    ELSE IF arrivals.kind # "int"
    THEN [valid |-> FALSE, err |-> "Arrivals must be a numeric value", value |-> 0]
    ELSE IF arrivals.v < 0
    THEN [valid |-> FALSE, err |-> "Arrivals must be greater than 0", value |-> 0]
    ELSE [valid |-> TRUE, err |-> "", value |-> arrivals.v]

validate_arrivals_input(arrivals) ==
    IF arrivals.kind = "none"
    THEN [valid |-> FALSE, err |-> "Arrivals is required", value |-> 0]
    ELSE IF arrivals.kind # "int"
    THEN [valid |-> FALSE, err |-> "Arrivals must be a numeric value", value |-> 0]
    ELSE IF arrivals.v <= 0
    THEN [valid |-> FALSE, err |-> "Arrivals must be greater than 0", value |-> 0]
    ELSE [valid |-> TRUE, err |-> "", value |-> arrivals.v]

\* variant: the quantity is not compared with the source's supply
validate_transfer_input_unbounded(source_mandi, quantity, commodity_name) ==
    LET commodity == get_commodity_from_mandi(source_mandi, commodity_name)
    IN  IF quantity <= 0
        THEN [valid |-> FALSE, err |-> "Transfer quantity must be greater than 0"]
        ELSE IF ~commodity.found
        THEN [valid |-> FALSE, err |-> "Commodity not found in source mandi"]
        ELSE [valid |-> TRUE, err |-> ""]

\* variant: the supply check reads the arrivals of before the last change
validate_transfer_input_stale(source_mandi, quantity, commodity_name) ==
    LET commodity == get_commodity_from_mandi(source_mandi, commodity_name)
    IN  IF quantity <= 0
        THEN [valid |-> FALSE, err |-> "Transfer quantity must be greater than 0"]
        ELSE IF ~commodity.found
        THEN [valid |-> FALSE, err |-> "Commodity not found in source mandi"]
        ELSE IF quantity > commodity.c.previousArrivals
        THEN [valid |-> FALSE, err |-> "Insufficient supply"]
        ELSE [valid |-> TRUE, err |-> ""]

validate_transfer_input(source_mandi, quantity, commodity_name) ==
    LET commodity == get_commodity_from_mandi(source_mandi, commodity_name)
    IN  IF quantity <= 0
        THEN [valid |-> FALSE, err |-> "Transfer quantity must be greater than 0"]
        ELSE IF ~commodity.found
        THEN [valid |-> FALSE, err |-> "Commodity not found in source mandi"]
        ELSE IF quantity > commodity.c.arrivals
        THEN [valid |-> FALSE, err |-> "Insufficient supply"]
        ELSE [valid |-> TRUE, err |-> ""]

\* ------------------------------------------------- writes to one mandi dict
\* variant: the previous* fields are not shifted
SetCommodityFieldsNoShift(c, new_arrivals, new_price, prev_arrivals, prev_price, new_supply) ==
    [c EXCEPT !.currentPrice = new_price,
              !.arrivals = new_arrivals,
              !.baseSupply = new_supply]

SetCommodityFields(c, new_arrivals, new_price, prev_arrivals, prev_price, new_supply) ==
    [c EXCEPT !.previousPrice = prev_price,
              !.currentPrice = new_price,
              !.previousArrivals = prev_arrivals,
              !.arrivals = new_arrivals,
              !.baseSupply = new_supply]

\* variant: the mandi-level baseSupply is not written
SetMandiLevelFieldsNoSupply(mandi, new_arrivals, new_price, prev_arrivals, prev_price, new_supply) ==
    [mandi EXCEPT !.previousPrice = prev_price,
                  !.currentPrice = new_price,
                  !.previousArrivals = prev_arrivals,
                  !.arrivals = new_arrivals]

SetMandiLevelFields(mandi, new_arrivals, new_price, prev_arrivals, prev_price, new_supply) ==
    [mandi EXCEPT !.previousPrice = prev_price,
                  !.currentPrice = new_price,
                  !.previousArrivals = prev_arrivals,
                  !.arrivals = new_arrivals,
                  !.baseSupply = new_supply]

\* "Step 6: Update current state" of append_market_update
UpdateCurrentState(mandi, commodity_name, new_arrivals, new_price, prev_arrivals, prev_price) ==
    LET i == FindCommodityIdx(mandi.commodities, commodity_name)
        withCommodity ==
            [mandi EXCEPT !.commodities[i] =
                SetCommodityFields(@, new_arrivals, new_price,
                                   prev_arrivals, prev_price, new_arrivals)]
    IN  IF i > 0
        THEN IF mandi.commodities[i].isPrimary
             THEN SetMandiLevelFields(withCommodity, new_arrivals, new_price,
                                      prev_arrivals, prev_price, new_arrivals)
             ELSE withCommodity
        ELSE IF Lower(mandi.commodity) = Lower(commodity_name)
        THEN SetMandiLevelFields(mandi, new_arrivals, new_price,
                                 prev_arrivals, prev_price, new_arrivals)
        ELSE mandi

update_mandi_commodity(mandi, commodity_name, new_arrivals, new_price, prev_arrivals, prev_price) ==
    LET i == FindCommodityIdx(mandi.commodities, commodity_name)
        withCommodity ==
            [mandi EXCEPT !.commodities[i] =
                SetCommodityFields(@, new_arrivals, new_price,
                                   prev_arrivals, prev_price, new_arrivals)]
    IN  IF i > 0
        THEN IF mandi.commodities[i].isPrimary
             THEN SetMandiLevelFields(withCommodity, new_arrivals, new_price,
                                      prev_arrivals, prev_price, new_arrivals)
             ELSE withCommodity
        ELSE IF Lower(mandi.commodity) = Lower(commodity_name)
        THEN SetMandiLevelFields(mandi, new_arrivals, new_price,
                                 prev_arrivals, prev_price, new_arrivals)
        ELSE mandi

\* variant: the newest entry takes the place of the last one
AppendSeriesOverwrite(mandi, date, price, arrivals) ==
    [mandi EXCEPT
        !.priceHistory =
            IF mandi.hasPriceHistory /\ Len(@) > 0
            THEN [@ EXCEPT ![Len(@)] = [date |-> date, price |-> price]] ELSE @,
        !.arrivalsHistory =
            IF mandi.hasArrivalsHistory /\ Len(@) > 0
            THEN [@ EXCEPT ![Len(@)] = [date |-> date, arrivals |-> arrivals]]
            ELSE @]

\* "Append to price and arrivals history"
AppendSeries(mandi, date, price, arrivals) ==
    [mandi EXCEPT
        !.priceHistory =
            IF mandi.hasPriceHistory
            THEN Append(@, [date |-> date, price |-> price]) ELSE @,
        !.arrivalsHistory =
            IF mandi.hasArrivalsHistory
            THEN Append(@, [date |-> date, arrivals |-> arrivals]) ELSE @]

\* variant: a transfer logs one row per mandi
AppendHistoryPerMandi(hist, record) ==
    IF record.type = "transfer_execution"
    THEN Append(Append(hist, record), record)
    ELSE Append(hist, record)

\* variant: the newest row is put first
AppendHistoryFront(hist, record) == <<record>> \o hist

AppendHistory(hist, record) == Append(hist, record)

NoRecord == [type |-> "none"]

\* variant: the row is logged before the error is raised
RaiseAfterAppend(ms, hist, msg) ==
    [ok |-> FALSE, err |-> msg, markets |-> ms,
     hist |-> Append(hist, NoRecord), record |-> NoRecord]

Raise(ms, hist, msg) ==
    [ok |-> FALSE, err |-> msg, markets |-> ms, hist |-> hist, record |-> NoRecord]

\* ------------------------------------------------------ append_market_update
append_market_update(ms, hist, date, mandi_id, commodity_name, new_arrivals) ==
    IF mandi_id \notin DOMAIN ms
    THEN Raise(ms, hist, "Mandi not found")
    ELSE
    LET mandi == ms[mandi_id]
        commodity == get_commodity_from_mandi(mandi, commodity_name)
    IN  IF ~commodity.found
        THEN Raise(ms, hist, "Commodity not found in mandi")
        ELSE
        LET prev_price == commodity.c.currentPrice
            prev_arrivals == commodity.c.arrivals
            prev_base_supply == commodity.c.baseSupply
            base_demand == commodity.c.baseDemand
            new_supply == new_arrivals
            new_price == compute_new_price(prev_price, new_supply, base_demand)
            update_record ==
                [type |-> "market_update",
                 mandiId |-> mandi_id, mandiName |-> mandi.name,
                 commodity |-> commodity_name, date |-> date,
                 previousPrice |-> prev_price, newPrice |-> new_price,
                 previousArrivals |-> prev_arrivals, newArrivals |-> new_arrivals,
                 previousSupply |-> prev_base_supply, newSupply |-> new_supply,
                 baseDemand |-> base_demand]
            updated == UpdateCurrentState(mandi, commodity_name, new_arrivals,
                                          new_price, prev_arrivals, prev_price)
        IN  [ok |-> TRUE, err |-> "",
             markets |-> [ms EXCEPT ![mandi_id] =
                             AppendSeries(updated, date, new_price, new_arrivals)],
             hist |-> AppendHistory(hist, update_record),
             record |-> update_record]

\* ----------------------------------------------------------- execute_transfer
\* the lookups and "Step 1: Validate transfer"; "" when the transfer may proceed
TransferError(ms, source_mandi_id, dest_mandi_id, commodity_name, quantity) ==
    IF source_mandi_id \notin DOMAIN ms THEN "Source mandi not found"
    ELSE IF dest_mandi_id \notin DOMAIN ms THEN "Destination mandi not found"
    ELSE validate_transfer_input(ms[source_mandi_id], quantity, commodity_name).err

\* variant: the destination is set to the quantity instead of raised by it
AdjustSuppliesOverwrite(source_prev_arrivals, dest_prev_arrivals, quantity) ==
    [source_new_arrivals |-> source_prev_arrivals - quantity,
     dest_new_arrivals |-> quantity]

\* "Step 2 & 3: Adjust supplies"
AdjustSupplies(source_prev_arrivals, dest_prev_arrivals, quantity) ==
    [source_new_arrivals |-> source_prev_arrivals - quantity,
     dest_new_arrivals |-> dest_prev_arrivals + quantity]

\* the locals of execute_transfer once validation has passed
TransferLocals(ms, date, source_mandi_id, dest_mandi_id, commodity_name, quantity) ==
    LET source_commodity ==
            get_commodity_from_mandi(ms[source_mandi_id], commodity_name).c
        dest_commodity ==
            get_commodity_from_mandi(ms[dest_mandi_id], commodity_name)
        source_prev_arrivals == source_commodity.arrivals
        source_prev_price == source_commodity.currentPrice
        source_base_demand == source_commodity.baseDemand
        dest_prev_arrivals ==
            IF dest_commodity.found THEN dest_commodity.c.arrivals ELSE 0
        dest_prev_price ==
            IF dest_commodity.found THEN dest_commodity.c.currentPrice
            ELSE source_prev_price
        dest_base_demand ==
            IF dest_commodity.found THEN dest_commodity.c.baseDemand ELSE quantity
        source_demand ==
            IF source_base_demand <= 0
            THEN (IF source_prev_arrivals > 0 THEN source_prev_arrivals ELSE 1000)
            ELSE source_base_demand
        dest_demand ==
            IF dest_base_demand <= 0 THEN quantity ELSE dest_base_demand
        adjusted == AdjustSupplies(source_prev_arrivals, dest_prev_arrivals,
                                   quantity)
        source_new_arrivals == adjusted.source_new_arrivals
        dest_new_arrivals == adjusted.dest_new_arrivals
        source_new_price ==
            compute_new_price(source_prev_price, source_new_arrivals, source_demand)
        dest_new_price ==
            compute_new_price(dest_prev_price, dest_new_arrivals, dest_demand)
    IN  [active |-> TRUE,
         source_mandi_id |-> source_mandi_id, dest_mandi_id |-> dest_mandi_id,
         commodity_name |-> commodity_name, quantity |-> quantity,
         current_date |-> date,
         transfer_record |->
            [type |-> "transfer_execution",
             sourceMandiId |-> source_mandi_id,
             sourceMandiName |-> ms[source_mandi_id].name,
             destMandiId |-> dest_mandi_id,
             destMandiName |-> ms[dest_mandi_id].name,
             commodity |-> commodity_name, quantity |-> quantity, date |-> date,
             source |-> [previousArrivals |-> source_prev_arrivals,
                         newArrivals |-> source_new_arrivals,
                         previousPrice |-> source_prev_price,
                         newPrice |-> source_new_price],
             destination |-> [previousArrivals |-> dest_prev_arrivals,
                              newArrivals |-> dest_new_arrivals,
                              previousPrice |-> dest_prev_price,
                              newPrice |-> dest_new_price]]]

\* "Update source mandi"
TransferUpdateSource(ms, loc) ==
    LET side == loc.transfer_record.source
    IN  [ms EXCEPT ![loc.source_mandi_id] =
            AppendSeries(
                update_mandi_commodity(@, loc.commodity_name, side.newArrivals,
                    side.newPrice, side.previousArrivals, side.previousPrice),
                loc.current_date, side.newPrice, side.newArrivals)]

\* "Update destination mandi"
TransferUpdateDest(ms, loc) ==
    LET side == loc.transfer_record.destination
    IN  [ms EXCEPT ![loc.dest_mandi_id] =
            AppendSeries(
                update_mandi_commodity(@, loc.commodity_name, side.newArrivals,
                    side.newPrice, side.previousArrivals, side.previousPrice),
                loc.current_date, side.newPrice, side.newArrivals)]

execute_transfer(ms, hist, date, source_mandi_id, dest_mandi_id, commodity_name, quantity) ==
    LET error == TransferError(ms, source_mandi_id, dest_mandi_id,
                               commodity_name, quantity)
        loc == TransferLocals(ms, date, source_mandi_id, dest_mandi_id,
                              commodity_name, quantity)
    IN  IF error # ""
        THEN Raise(ms, hist, error)
        ELSE [ok |-> TRUE, err |-> "",
              markets |-> TransferUpdateDest(TransferUpdateSource(ms, loc), loc),
              hist |-> AppendHistory(hist, loc.transfer_record),
              record |-> loc.transfer_record]

\* ------------------------------------------------------- server.py handlers
\* POST /market-update
update_market_signals(ms, hist, date, mandiId, commodity, arrivals) ==
    LET checked == validate_arrivals_input(arrivals)
    IN  IF ~checked.valid
        THEN Raise(ms, hist, checked.err)
        ELSE append_market_update(ms, hist, date, mandiId, commodity, checked.value)

\* variant: source and destination are not compared
TransferRequestErrorNoSame(sourceMandiId, destMandiId, quantity) ==
    IF quantity <= 0 THEN "Transfer quantity must be greater than 0"
    ELSE ""

\* what POST /execute-transfer rejects before it calls execute_transfer
TransferRequestError(sourceMandiId, destMandiId, quantity) ==
    IF quantity <= 0 THEN "Transfer quantity must be greater than 0"
    ELSE IF sourceMandiId = destMandiId
    THEN "Source and destination mandis cannot be the same"
    ELSE ""

\* POST /execute-transfer
execute_transfer_endpoint(ms, hist, date, sourceMandiId, destMandiId, commodity, quantity) ==
    LET error == TransferRequestError(sourceMandiId, destMandiId, quantity)
    IN  IF error # ""
        THEN Raise(ms, hist, error)
        ELSE execute_transfer(ms, hist, date, sourceMandiId, destMandiId,
                              commodity, quantity)

\* get_latest_state_for_mandi(): the live dict of the mandi, None when unknown
get_latest_state_for_mandi(ms, mandi_id) == get_mandi_by_id(ms, mandi_id)

\* ============================================================== server.py
\* ------------------------------------------------ numbers of the engines
\* The engines of server.py compute with floats; the model computes with the
\* reals they stand for.  Prices are whole quanta of round(x, 2), percentages
\* whole hundredths of a percent, quantities whole quintals.
Quantum == 100        \* quanta in one rupee: round(x, 2)

\* ELASTICITY = 0.4 = ServerElasticityNum / ServerElasticityDen
ServerElasticityNum == 2
ServerElasticityDen == 5

\* VOLATILITY_THRESHOLD = 10.0 rupees
VOLATILITY_THRESHOLD == 10

\* [x \in {value} |-> body] names a value that is computed once, as an
\* assignment to a local variable of the source does; With gives the body
With(binding) == binding[CHOOSE x \in DOMAIN binding : TRUE]

\* dict.get(key, default)
Get(dict, key, default) == IF key \in DOMAIN dict THEN dict[key] ELSE default

\* naturals of any size: limbs of four decimal digits, the lowest first, no
\* highest limb that is zero
RECURSIVE BigOf(_)
BigOf(n) == IF n = 0 THEN <<>> ELSE <<n % 10000>> \o BigOf(n \div 10000)

RECURSIVE BigAdd(_, _, _)
BigAdd(a, b, carry) ==
    IF a = <<>> /\ b = <<>>
    THEN (IF carry = 0 THEN <<>> ELSE <<carry>>)
    ELSE LET x == IF a = <<>> THEN 0 ELSE Head(a)
             y == IF b = <<>> THEN 0 ELSE Head(b)
             t == x + y + carry
         IN  <<t % 10000>> \o BigAdd(IF a = <<>> THEN <<>> ELSE Tail(a),
                                     IF b = <<>> THEN <<>> ELSE Tail(b),
                                     t \div 10000)

RECURSIVE BigScale(_, _, _)
BigScale(a, s, carry) ==
    IF a = <<>>
    THEN BigOf(carry)
    ELSE LET t == Head(a) * s + carry
         IN  <<t % 10000>> \o BigScale(Tail(a), s, t \div 10000)

RECURSIVE BigMul(_, _)
BigMul(a, b) ==
    IF a = <<>> \/ b = <<>> THEN <<>>
    ELSE LET rest == BigMul(a, Tail(b))
             shifted == IF rest = <<>> THEN <<>> ELSE <<0>> \o rest
         IN  IF Head(b) = 0 THEN shifted
             ELSE BigAdd(BigScale(a, Head(b), 0), shifted, 0)

RECURSIVE BigPow(_, _)
BigPow(a, n) == IF n = 0 THEN <<1>> ELSE BigMul(a, BigPow(a, n - 1))

RECURSIVE BigLeq(_, _)
BigLeq(a, b) ==
    IF Len(a) # Len(b) THEN Len(a) < Len(b)
    ELSE IF a = <<>> THEN TRUE
    ELSE LET n == Len(a)
         IN  IF a[n] # b[n] THEN a[n] < b[n]
             ELSE BigLeq(SubSeq(a, 1, n - 1), SubSeq(b, 1, n - 1))

RECURSIVE GCD(_, _)
GCD(a, b) == IF b = 0 THEN a ELSE GCD(b, a % b)

\* a rational n/d, d > 0
Rat(n, d) == [n |-> n, d |-> d]

\* round(x, 0) of a rational: the nearest integer, a half going to the even one
RoundRat(x) ==
    LET up == (2 * x.n + x.d) \div (2 * x.d)
    IN  IF (2 * x.n + x.d) % (2 * x.d) = 0 /\ up % 2 = 1 THEN up - 1 ELSE up

\* int(x) of a rational: the fraction is dropped, towards zero
TruncRat(x) == IF x.n >= 0 THEN x.n \div x.d ELSE -((-x.n) \div x.d)

\* A price multiplier m: 2 when cap, else pow(a / b, ELASTICITY).
Multiplier(cap, a, b) ==
    LET g == GCD(a, b)
    IN  IF cap \/ g = 0 THEN [cap |-> cap, a |-> a, b |-> b]
        ELSE [cap |-> FALSE, a |-> a \div g, b |-> b \div g]

NoMultiplier == [cap |-> FALSE, a |-> 1, b |-> 1]

\* m >= x / y, for y > 0
MultGeq(m, x, y) ==
    IF x <= 0 THEN TRUE
    ELSE IF m.cap THEN 2 * y >= x
    ELSE BigLeq(BigMul(BigPow(BigOf(x), ServerElasticityDen),
                       BigPow(BigOf(m.b), ServerElasticityNum)),
                BigMul(BigPow(BigOf(y), ServerElasticityDen),
                       BigPow(BigOf(m.a), ServerElasticityNum)))

\* m <= x / y, for y > 0
MultLeq(m, x, y) ==
    IF x < 0 THEN FALSE
    ELSE IF m.cap THEN 2 * y <= x
    ELSE BigLeq(BigMul(BigPow(BigOf(y), ServerElasticityDen),
                       BigPow(BigOf(m.a), ServerElasticityNum)),
                BigMul(BigPow(BigOf(x), ServerElasticityDen),
                       BigPow(BigOf(m.b), ServerElasticityNum)))

\* an integer no smaller than m
MultCeiling(m) ==
    IF m.cap THEN 2
    ELSE IF m.a <= m.b THEN 1
    ELSE (m.a \div m.b) + 1

\* The float (c0 + c1 * m) / c2 of a call whose price multiplier is m, with
\* c1 >= 0 and c2 > 0; a stored number n is Exact(n).
Abs(n) == IF n < 0 THEN -n ELSE n

Real(c0, c1, c2) ==
    LET g == GCD(GCD(Abs(c0), c1), c2)
    IN  [c0 |-> c0 \div g, c1 |-> c1 \div g, c2 |-> c2 \div g]

Exact(n) == Real(n, 0, 1)

\* v + k, for an integer k
RealAdd(v, k) == Real(v.c0 + k * v.c2, v.c1, v.c2)

\* v * num / den, for integers num >= 0 and den > 0
RealScale(v, num, den) == Real(v.c0 * num, v.c1 * num, v.c2 * den)

\* x * m, for an integer x >= 0
TimesMultiplier(x) == Real(0, x, 1)

\* v > x / y, for y > 0
RealGt(v, m, x, y) ==
    IF v.c1 = 0
    THEN v.c0 * y > v.c2 * x
    ELSE ~MultLeq(m, v.c2 * x - v.c0 * y, v.c1 * y)

\* v >= x / y, for y > 0
RealGeq(v, m, x, y) ==
    IF v.c1 = 0
    THEN v.c0 * y >= v.c2 * x
    ELSE MultGeq(m, v.c2 * x - v.c0 * y, v.c1 * y)

RECURSIVE LargestRounding(_, _, _, _)
\* the largest k of lo..hi with k - 1/2 <= v, which lo satisfies
LargestRounding(lo, hi, v, m) ==
    IF lo >= hi THEN lo
    ELSE LET mid == (lo + hi + 1) \div 2
         IN  IF MultGeq(m, (2 * mid - 1) * v.c2 - 2 * v.c0, 2 * v.c1)
             THEN LargestRounding(mid, hi, v, m)
             ELSE LargestRounding(lo, mid - 1, v, m)

\* round(v, 0): the nearest integer
RealRound(v, m) ==
    IF v.c1 = 0
    THEN RoundRat(Rat(v.c0, v.c2))
    ELSE LargestRounding(v.c0 \div v.c2,
                         ((v.c0 + v.c1 * MultCeiling(m)) \div v.c2) + 1, v, m)

\* ------------------------------------------------------- the stress engine
RECURSIVE SumOf(_)
SumOf(xs) == IF xs = <<>> THEN 0 ELSE Head(xs) + SumOf(Tail(xs))

SeqMax(xs) == CHOOSE x \in {xs[i] : i \in 1..Len(xs)} :
                  \A j \in 1..Len(xs) : xs[j] <= x
SeqMin(xs) == CHOOSE x \in {xs[i] : i \in 1..Len(xs)} :
                  \A j \in 1..Len(xs) : xs[j] >= x

\* calculate_price_volatility: the standard deviation, given by its square,
\* the variance  sum((p - mean)^2) / len  =  sum((len*p - sum)^2) / len^3;
\* `spread` bounds it from above
calculate_price_volatility(price_history) ==
    IF Len(price_history) < 2
    THEN [square |-> Rat(0, 1), spread |-> 0]
    ELSE LET prices == [i \in 1..Len(price_history) |-> price_history[i].price]
             len == Len(prices)
             total == SumOf(prices)
             deviations == [i \in 1..len |->
                               (len * prices[i] - total) * (len * prices[i] - total)]
         IN  [square |-> Rat(SumOf(deviations), len * len * len),
              spread |-> SeqMax(prices) - SeqMin(prices)]

\* volatility > t, for t >= 0 in quanta
VolatilityAbove(volatility, t) ==
    volatility.square.n > t * t * volatility.square.d

RECURSIVE LargestRoot(_, _, _)
\* the largest v of lo..hi with (v - 1/2)^2 <= square, which lo satisfies
LargestRoot(lo, hi, square) ==
    IF lo >= hi THEN lo
    ELSE LET mid == (lo + hi + 1) \div 2
         IN  IF (2 * mid - 1) * (2 * mid - 1) * square.d <= 4 * square.n
             THEN LargestRoot(mid, hi, square)
             ELSE LargestRoot(lo, mid - 1, square)

\* round(volatility, 2), in quanta
RoundVolatility(volatility) ==
    LargestRoot(0, volatility.spread, volatility.square)

\* ((current - previous) / previous) * 100 if previous > 0 else 0, rounded to
\* hundredths of a percent
RoundChangePct(current, previous) ==
    IF previous > 0
    THEN RoundRat(Rat(100 * Quantum * (current - previous), previous))
    ELSE 0

\* variant: price_change_pct >= t
PriceChangeFrom(current_price, previous_price, m, t) ==
    /\ previous_price > 0
    /\ RealGeq(current_price, m, previous_price * (100 + t), 100)

\* price_change_pct > t, for t >= 0; current_price is a float
PriceChangeAbove(current_price, previous_price, m, t) ==
    /\ previous_price > 0
    /\ RealGt(current_price, m, previous_price * (100 + t), 100)

\* arrival_change_pct < -t, for t >= 0
ArrivalChangeBelow(current_arrivals, previous_arrivals, t) ==
    /\ previous_arrivals > 0
    /\ 100 * (current_arrivals - previous_arrivals) < -t * previous_arrivals

\* "=== PRICE STRESS ==="
price_stress(current_price, previous_price, m) ==
    IF PriceChangeAbove(current_price, previous_price, m, 8) THEN 35
    ELSE IF PriceChangeAbove(current_price, previous_price, m, 4) THEN 20
    ELSE 0

\* "=== SUPPLY STRESS ==="
supply_stress(current_arrivals, previous_arrivals) ==
    IF ArrivalChangeBelow(current_arrivals, previous_arrivals, 10) THEN 30
    ELSE IF ArrivalChangeBelow(current_arrivals, previous_arrivals, 5) THEN 15
    ELSE 0

\* "=== INSTABILITY STRESS ==="
instability_stress(volatility) ==
    IF VolatilityAbove(volatility, VOLATILITY_THRESHOLD * Quantum) THEN 20
    ELSE 0

\* "=== EXTERNAL STRESS ==="
external_stress(mandi) ==
    (IF Get(mandi, "rainFlag", FALSE) THEN 10 ELSE 0)
    + (IF Get(mandi, "festivalFlag", FALSE) THEN 10 ELSE 0)

\* "Clamp stress score between 0 and 100"
Clamp(stress) ==
    LET capped == IF stress < 100 THEN stress ELSE 100
    IN  IF capped > 0 THEN capped ELSE 0

\* variant: a score of 65 already counts as high risk, one of 35 as watch
StatusOfInclusive(stress) ==
    IF stress >= 65 THEN "high_risk"
    ELSE IF stress >= 35 THEN "watch"
    ELSE "normal"

\* "Determine status classification"
StatusOf(stress) ==
    IF stress > 65 THEN "high_risk"
    ELSE IF stress > 35 THEN "watch"
    ELSE "normal"

\* mandi.get("priceHistory", [])
PriceHistoryOf(mandi) ==
    IF Get(mandi, "hasPriceHistory", FALSE) THEN mandi.priceHistory ELSE <<>>

\* calculate_stress_score up to the status, for a dict whose currentPrice is
\* a float of a call with price multiplier m
StressCore(mandi, m) ==
    With([breakdown \in
            {[priceStress |-> price_stress(mandi.currentPrice,
                                          mandi.previousPrice, m),
              supplyStress |-> supply_stress(mandi.arrivals,
                                             mandi.previousArrivals),
              instabilityStress |->
                 instability_stress(
                     calculate_price_volatility(PriceHistoryOf(mandi))),
              externalStress |-> external_stress(mandi)]} |->
    With([stress \in
            {Clamp(breakdown.priceStress + breakdown.supplyStress
                   + breakdown.instabilityStress
                   + breakdown.externalStress)} |->
        [stressScore |-> stress,
         status |-> StatusOf(stress),
         stressBreakdown |-> breakdown]])])

\* calculate_stress_score of a stored mandi
calculate_stress_score(mandi) ==
    With([core \in {StressCore([mandi EXCEPT !.currentPrice = Exact(@)],
                               NoMultiplier)} |->
        [stressScore |-> core.stressScore,
         status |-> core.status,
         volatility |->
            RoundVolatility(calculate_price_volatility(PriceHistoryOf(mandi))),
         priceChangePct |->
            RoundChangePct(mandi.currentPrice, mandi.previousPrice),
         arrivalChangePct |->
            RoundChangePct(mandi.arrivals, mandi.previousArrivals),
         stressBreakdown |-> core.stressBreakdown]])

\* variant of the dict spread below: the writes reach the dict that was spread
SpreadThenSetAliased(dict, assigned) ==
    [fresh |-> assigned @@ dict, spread |-> assigned @@ dict]

\* {**dict} followed by item assignments: the assignments reach the fresh
\* dict only, the dict that was spread keeps its items
SpreadThenSet(dict, assigned) ==
    [fresh |-> assigned @@ dict, spread |-> dict]

\* enrich_mandi_with_stress: the enriched copy, and the mandi as the call
\* leaves it
enrich_mandi_with_stress(mandi) ==
    With([copy \in {SpreadThenSet(mandi, calculate_stress_score(mandi))} |->
        [enriched |-> copy.fresh, mandi |-> copy.spread]])

\* ---------------------------------------------------- the simulation engine
SupplyShocks == {"rain", "supply_drop", "transport"}

Range(xs) == {xs[i] : i \in 1..Len(xs)}

\* variant: no shock type changes supply, demand or arrivals
ApplyShockNone(target_mandi, shock_type, intensity, duration) ==
    [base_supply |-> Get(target_mandi, "baseSupply", target_mandi.arrivals),
     base_demand |-> Get(target_mandi, "baseDemand", target_mandi.arrivals),
     new_supply |-> Rat(Get(target_mandi, "baseSupply", target_mandi.arrivals), 1),
     new_demand |-> Rat(Get(target_mandi, "baseDemand", target_mandi.arrivals), 1),
     new_arrivals |-> target_mandi.arrivals]

\* "Apply shock based on type": supply and demand after the shock, as floats
ApplyShock(target_mandi, shock_type, intensity, duration) ==
    LET base_supply == Get(target_mandi, "baseSupply", target_mandi.arrivals)
        base_demand == Get(target_mandi, "baseDemand", target_mandi.arrivals)
        current_arrivals == target_mandi.arrivals
        \* intensity_factor * duration_factor * 0.4
        supply_reduction == Rat(intensity * duration * 4, 100 * 7 * 10)
        \* intensity_factor * duration_factor * 0.35
        demand_increase == Rat(intensity * duration * 35, 100 * 7 * 100)
    IN  IF shock_type \in SupplyShocks
        THEN [base_supply |-> base_supply, base_demand |-> base_demand,
              new_supply |-> Rat(base_supply
                                   * (supply_reduction.d - supply_reduction.n),
                                 supply_reduction.d),
              new_demand |-> Rat(base_demand, 1),
              new_arrivals |-> TruncRat(Rat(current_arrivals
                                   * (supply_reduction.d - supply_reduction.n),
                                 supply_reduction.d))]
        ELSE IF shock_type = "demand_spike"
        THEN [base_supply |-> base_supply, base_demand |-> base_demand,
              new_supply |-> Rat(base_supply, 1),
              new_demand |-> Rat(base_demand
                                   * (demand_increase.d + demand_increase.n),
                                 demand_increase.d),
              new_arrivals |-> current_arrivals]
        ELSE [base_supply |-> base_supply, base_demand |-> base_demand,
              new_supply |-> Rat(base_supply, 1),
              new_demand |-> Rat(base_demand, 1),
              new_arrivals |-> current_arrivals]

\* variant: the ratio is taken as supply over demand
PriceMultiplierOfInverse(new_supply, new_demand) ==
    IF new_supply.n > 0
    THEN Multiplier(FALSE, new_supply.n * new_demand.d,
                    new_demand.n * new_supply.d)
    ELSE Multiplier(TRUE, 0, 1)

\* "Calculate new price using elasticity formula": new_price / current_price
PriceMultiplierOf(new_supply, new_demand) ==
    IF new_supply.n > 0
    THEN Multiplier(FALSE, new_demand.n * new_supply.d,
                    new_supply.n * new_demand.d)
    ELSE Multiplier(TRUE, 0, 1)

\* round(new_price, 2) of simulate_shock for a supply and a demand
SimulatedPrice(current_price, new_supply, new_demand) ==
    RealRound(TimesMultiplier(current_price),
              PriceMultiplierOf(new_supply, new_demand))

\* "Generate simulated price history (project forward)"
SimulatedHistory(base_history, current_price, m) ==
    [j \in 1..Len(base_history) |->
        IF j - 1 < Len(base_history) - 2
        THEN [date |-> base_history[j].date, price |-> base_history[j].price]
        ELSE LET \* progress = (i - (len(base_history) - 3)) / 3
                 thirds == (j - 1) - (Len(base_history) - 3)
                 \* ph["price"] + (new_price - current_price) * progress
                 shock_price ==
                     RealAdd(RealScale(RealAdd(TimesMultiplier(current_price),
                                               -current_price),
                                       thirds, 3),
                             base_history[j].price)
             IN  [date |-> base_history[j].date,
                  price |-> RealRound(shock_price, m)]]

\* variant: the second level takes the same share as the first
RippleShareFlat(level) == Rat(6, 10)

\* the share of the price impact a neighbour of the level takes: 0.6, 0.3
RippleShare(level) == IF level = 1 THEN Rat(6, 10) ELSE Rat(3, 10)

\* the hypothetical copy a neighbour's stress is computed on
RippledNeighbour(neighbor, level, shock_type, intensity, price_impact_pct) ==
    LET share == RippleShare(level)
        ripple_price_impact == RealScale(price_impact_pct, share.n, share.d)
        \* neighbor["currentPrice"] * (1 + ripple_price_impact / 100)
        neighbor_new_price ==
            RealScale(RealAdd(RealScale(ripple_price_impact, 1, 100), 1),
                      neighbor.currentPrice, 1)
        \* int(neighbor["arrivals"] * (1 - intensity_factor * 0.3 * 0.6))
        fewer == TruncRat(Rat(neighbor.arrivals * (10000 - intensity * 3 * 6),
                              10000))
    IN  IF level = 1 /\ shock_type \in SupplyShocks
        THEN SpreadThenSet(neighbor, [currentPrice |-> neighbor_new_price,
                                      arrivals |-> fewer])
        ELSE SpreadThenSet(neighbor, [currentPrice |-> neighbor_new_price])

\* one entry of affected_mandis
AffectedEntry(neighbor, level, shock_type, intensity, price_impact_pct, m) ==
    With([simulated \in
            {RippledNeighbour(neighbor, level, shock_type, intensity,
                              price_impact_pct)} |->
        [mandiId |-> neighbor.id,
         mandiName |-> neighbor.name,
         \* round(ripple_price_impact, 2)
         priceChange |->
            RealRound(RealScale(price_impact_pct,
                                RippleShare(level).n * Quantum,
                                RippleShare(level).d), m),
         newPrice |-> RealRound(simulated.fresh.currentPrice, m),
         originalPrice |-> neighbor.currentPrice,
         newStressScore |-> StressCore(simulated.fresh, m).stressScore,
         previousStressScore |-> calculate_stress_score(neighbor).stressScore,
         rippleLevel |-> level]])

\* variant: the target itself is collected when a neighbour lists it
SecondLevelIdsWithTarget(target_mandi, all_mandis) ==
    LET connected_ids == Get(target_mandi, "connectedMandis", <<>>)
    IN  {second_id \in UNION {Range(Get(all_mandis[id], "connectedMandis", <<>>)) :
                                id \in Range(connected_ids) \cap DOMAIN all_mandis} :
            second_id \notin Range(connected_ids)}

\* "Collect second level connections"
SecondLevelIds(target_mandi, all_mandis) ==
    LET connected_ids == Get(target_mandi, "connectedMandis", <<>>)
    IN  {second_id \in UNION {Range(Get(all_mandis[id], "connectedMandis", <<>>)) :
                                id \in Range(connected_ids) \cap DOMAIN all_mandis} :
            second_id # target_mandi.id /\ second_id \notin Range(connected_ids)}

\* the enumerations a set of ids can be iterated in
Enumerations(ids) ==
    {order \in [1..Cardinality(ids) -> ids] : Range(order) = ids}

InAllMandis(all_mandis, ids) ==
    SelectSeq(ids, LAMBDA id : id \in DOMAIN all_mandis)

\* simulate_shock: the dict it returns and the mandis as the call leaves them;
\* second_level_order is the order the set second_level_ids is iterated in
simulate_shock(target_mandi, shock_type, intensity, duration, all_mandis, second_level_order) ==
    With([shock \in
            {ApplyShock(target_mandi, shock_type, intensity, duration)} |->
    With([m \in {PriceMultiplierOf(shock.new_supply, shock.new_demand)} |->
    \* ((new_price - current_price) / current_price) * 100
    With([price_impact_pct \in
            {RealScale(RealAdd(TimesMultiplier(target_mandi.currentPrice),
                               -target_mandi.currentPrice),
                       100, target_mandi.currentPrice)} |->
    With([simulated_mandi \in
            {SpreadThenSet(target_mandi,
                (IF shock_type = "rain" THEN [rainFlag |-> TRUE]
                 ELSE IF shock_type = "demand_spike"
                 THEN [festivalFlag |-> TRUE]
                 ELSE <<>>)
                @@ [currentPrice |-> TimesMultiplier(target_mandi.currentPrice),
                    arrivals |-> shock.new_arrivals])} |->
    With([new_stress_data \in {StressCore(simulated_mandi.fresh, m)} |->
    LET current_price == target_mandi.currentPrice
        new_price == TimesMultiplier(current_price)
        connected_ids == Get(target_mandi, "connectedMandis", <<>>)
        first_level_ids == InAllMandis(all_mandis, connected_ids)
        second_level_ids == InAllMandis(all_mandis, second_level_order)
        first_level ==
            [i \in 1..Len(first_level_ids) |->
                AffectedEntry(all_mandis[first_level_ids[i]], 1, shock_type,
                              intensity, price_impact_pct, m)]
        second_level ==
            [i \in 1..Len(second_level_ids) |->
                AffectedEntry(all_mandis[second_level_ids[i]], 2, shock_type,
                              intensity, price_impact_pct, m)]
    IN  [result |->
            [originalMandi |-> target_mandi.name,
             originalMandiId |-> target_mandi.id,
             shockType |-> shock_type,
             intensity |-> intensity,
             duration |-> duration,
             priceImpact |-> RealRound(RealScale(price_impact_pct, Quantum, 1), m),
             predictedPrice |-> RealRound(new_price, m),
             originalPrice |-> current_price,
             predictedArrivals |-> shock.new_arrivals,
             originalArrivals |-> target_mandi.arrivals,
             newStressScore |-> new_stress_data.stressScore,
             previousStressScore |->
                calculate_stress_score(target_mandi).stressScore,
             newStatus |-> new_stress_data.status,
             affectedMandis |-> first_level \o second_level,
             simulatedPriceHistory |->
                SimulatedHistory(PriceHistoryOf(target_mandi), current_price, m),
             simulationParameters |->
                [supplyBefore |-> shock.base_supply,
                 supplyAfter |-> RoundRat(shock.new_supply),
                 demandBefore |-> shock.base_demand,
                 demandAfter |-> RoundRat(shock.new_demand)]],
         mandis |->
            [id \in DOMAIN all_mandis |->
                IF id = target_mandi.id THEN simulated_mandi.spread
                ELSE IF id \in Range(first_level_ids)
                THEN RippledNeighbour(all_mandis[id], 1, shock_type, intensity,
                                      price_impact_pct).spread
                ELSE IF id \in Range(second_level_ids)
                THEN RippledNeighbour(all_mandis[id], 2, shock_type, intensity,
                                      price_impact_pct).spread
                ELSE all_mandis[id]]]])])])])])

\* ------------------------------------------- server.py: the engines' handlers
NoBody == [none |-> TRUE]

\* GET /mandi/{mandi_id}: the response, and BASE_DATA["mandis"] as the call
\* leaves it
get_mandi_detail(base, mandi_id) ==
    IF mandi_id \notin DOMAIN base
    THEN [status |-> 404, body |-> NoBody, mandis |-> base]
    ELSE With([call \in {enrich_mandi_with_stress(base[mandi_id])} |->
         LET enriched == call.enriched
         IN  [status |-> 200,
              body |->
                [id |-> enriched.id, name |-> enriched.name,
                 commodity |-> enriched.commodity,
                 currentPrice |-> enriched.currentPrice,
                 previousPrice |-> enriched.previousPrice,
                 arrivals |-> enriched.arrivals,
                 previousArrivals |-> enriched.previousArrivals,
                 stressScore |-> enriched.stressScore,
                 status |-> enriched.status,
                 volatility |-> enriched.volatility,
                 priceChangePct |-> enriched.priceChangePct,
                 arrivalChangePct |-> enriched.arrivalChangePct,
                 rainFlag |-> Get(enriched, "rainFlag", FALSE),
                 festivalFlag |-> Get(enriched, "festivalFlag", FALSE),
                 priceHistory |-> PriceHistoryOf(enriched),
                 arrivalsHistory |->
                    IF Get(enriched, "hasArrivalsHistory", FALSE)
                    THEN enriched.arrivalsHistory ELSE <<>>,
                 connectedMandis |-> Get(enriched, "connectedMandis", <<>>),
                 stressBreakdown |-> enriched.stressBreakdown],
              mandis |-> [base EXCEPT ![mandi_id] = call.mandi]]])

\* POST /simulate
run_simulation(base, mandiId, shockType, intensity, duration, second_level_order) ==
    IF mandiId \notin DOMAIN base
    THEN [status |-> 404, body |-> NoBody, mandis |-> base]
    ELSE With([call \in {simulate_shock(base[mandiId], shockType, intensity,
                                         duration, base, second_level_order)} |->
            [status |-> 200, body |-> call.result, mandis |-> call.mandis]])

\* ----------------------------------------------------- the engines' requests
EngineIds == {"m1", "m2", "m3", "m4"}
EngineInputs == EngineIds \cup {"mX"}
ShockTypes == {"rain", "supply_drop", "demand_spike", "festival"}
Intensities == {1, 80, 100}      \* within Field(ge=1, le=100)
Durations == {1, 7, 25}          \* within Field(ge=1, le=30)

EngineMandi(id, commodity, previous_price, current_price, previous_arrivals, arrivals, demand, history, rain, festival, connected) ==
    [rainFlag |-> rain, festivalFlag |-> festival,
     connectedMandis |-> connected] @@
    [Mandi(id, Commodity(commodity, TRUE, current_price, arrivals, demand),
           <<>>, TRUE)
        EXCEPT !.previousPrice = previous_price,
               !.previousArrivals = previous_arrivals,
               !.priceHistory =
                    [i \in 1..Len(history) |->
                        [date |-> "d0", price |-> history[i]]]]

\* A baseline the JSON file may hold, for the engines: m1 is the mandi of the
\* stress scenario (+10% price, -15% arrivals, volatility 12 rupees), m2 sits
\* on a score of 65, m3 on the thresholds of 8% and -10% and on a score of
\* 35, m4 is calm, dear, and lists a mandi the file does not hold.
\* The operators above compute the exact values; a binary float may fall
\* short of an exact integer or of an exact half (int(2100 * (1 - 0.32)) is
\* 1427, round(900 * 1.035, 0) is 931), and the numbers here and the requests
\* below keep clear of such products, so that every response of the model is
\* the response of the source.
EngineBaseline(rain, festival) ==
    [id \in EngineIds |->
        CASE id = "m1" ->
                EngineMandi("m1", "Onion", 10000, 11000, 1000, 850, 900,
                            <<8800, 11200>>, rain, festival, <<"m2", "m3">>)
          [] id = "m2" ->
                EngineMandi("m2", "Tomato", 5000, 5450, 500, 440, 500,
                            <<5000, 5450>>, FALSE, FALSE, <<"m1", "m3", "m4">>)
          [] id = "m3" ->
                EngineMandi("m3", "Potato", 2500, 2700, 400, 360, 400,
                            <<2500, 2600, 2700>>, FALSE, FALSE, <<"m1", "m4">>)
          [] id = "m4" ->
                EngineMandi("m4", "Rice", 25000, 25000, 2000, 2090, 2000,
                            <<25000>>, FALSE, TRUE, <<"m2", "m3", "m5">>)]

EngineBaselines == {EngineBaseline(TRUE, festival) : festival \in BOOLEAN}

NoReply == [op |-> "none", mandiId |-> "", shockType |-> "", intensity |-> 0,
            duration |-> 0, status |-> 0, body |-> NoBody]

\* ------------------------------------------------------------------ state
Store(ms, hist) == [markets |-> ms, hist |-> hist]

Init ==
    /\ data \in {Baseline(listed) : listed \in BOOLEAN}
    /\ market_state = data
    /\ state_history = <<>>
    /\ pc = "idle"
    /\ pend = NoPend
    /\ last = NoLast
    /\ before = Store(market_state, state_history)
    /\ okCount = 0
    /\ calls = 0
    /\ BASE_DATA = data
    /\ reply = NoReply

\* variant: a handler may start while another is between two statements
LoopFreeAwaiting == TRUE

\* the event loop runs one handler at a time: a handler starts only when no
\* other handler is between two of its statements (the handlers are coroutines
\* that never await while they touch the store)
LoopFree == pc = "idle"

\* the part of the state space the model follows
Budget == calls < MaxOps

Admit(res) ==
    \A m \in DOMAIN res.markets :
        /\ res.markets[m].currentPrice <= MaxPrice
        /\ \A i \in 1..Len(res.markets[m].commodities) :
              res.markets[m].commodities[i].currentPrice <= MaxPrice

Outcome(op, res, mandi, dest, commodity, n) ==
    IF res.ok
    THEN [op |-> op, ok |-> TRUE, err |-> "", mandi |-> mandi, dest |-> dest,
          commodity |-> commodity, n |-> n]
    ELSE [op |-> op, ok |-> FALSE, err |-> res.err, mandi |-> "", dest |-> "",
          commodity |-> "", n |-> 0]

\* ---------------------------------------------------------------- actions
UpdateMarketSignals ==
    /\ LoopFree
    /\ Budget
    /\ calls' = calls + 1
    /\ \E mandiId \in MandiInputs, commodity \in CommodityInputs,
          arrivals \in ArrivalInputs :
        \E res \in {update_market_signals(market_state, state_history, Today,
                                         mandiId, commodity, arrivals)} :
            /\ res.ok => Admit(res)
            /\ market_state' = res.markets
            /\ state_history' = res.hist
            /\ okCount' = IF res.ok THEN okCount + 1 ELSE okCount
            /\ last' = Outcome("market_update", res, mandiId, "", commodity,
                               arrivals.v)
    /\ before' = Store(market_state, state_history)
    /\ UNCHANGED <<data, BASE_DATA, reply, pc, pend>>

ExecuteTransferEndpoint ==
    /\ LoopFree
    /\ Budget
    /\ calls' = calls + 1
    /\ \E sourceMandiId \in MandiInputs, destMandiId \in MandiInputs,
          commodity \in CommodityInputs, quantity \in Quantities :
        \E res \in {execute_transfer_endpoint(market_state, state_history, Today,
                       sourceMandiId, destMandiId, commodity, quantity)} :
            /\ res.ok => Admit(res)
            /\ market_state' = res.markets
            /\ state_history' = res.hist
            /\ okCount' = IF res.ok THEN okCount + 1 ELSE okCount
            /\ last' = Outcome("execute_transfer", res, sourceMandiId,
                               destMandiId, commodity, quantity)
    /\ before' = Store(market_state, state_history)
    /\ UNCHANGED <<data, BASE_DATA, reply, pc, pend>>

\* reset_state(): both globals are replaced, the baseline is loaded again
ResetState ==
    /\ LoopFree
    /\ calls' = 0
    /\ market_state' = data
    /\ state_history' = <<>>
    /\ okCount' = 0
    /\ last' = [NoLast EXCEPT !.op = "reset_state"]
    /\ before' = Store(market_state, state_history)
    /\ UNCHANGED <<data, BASE_DATA, reply, pc, pend>>

Next ==
    \/ UpdateMarketSignals
    \/ ExecuteTransferEndpoint
    \/ ResetState

Spec == Init /\ [][Next]_vars

\* ------------------------------------- the transfer handler, statement-wise
\* POST /execute-transfer turned down by the handler or by execute_transfer
TransferRejected ==
    /\ LoopFree
    /\ Budget
    /\ calls' = calls + 1
    /\ \E sourceMandiId \in MandiInputs, destMandiId \in MandiInputs,
          commodity \in CommodityInputs, quantity \in Quantities :
        \E res \in {execute_transfer_endpoint(market_state, state_history, Today,
                       sourceMandiId, destMandiId, commodity, quantity)} :
            /\ ~res.ok
            /\ last' = Outcome("execute_transfer", res, sourceMandiId,
                               destMandiId, commodity, quantity)
    /\ before' = Store(market_state, state_history)
    /\ UNCHANGED <<data, BASE_DATA, reply, market_state, state_history, pc, pend, okCount>>

\* validation passed: "Step 6: Append to history log"
TransferAppend ==
    /\ LoopFree
    /\ Budget
    /\ calls' = calls + 1
    /\ \E sourceMandiId \in MandiInputs, destMandiId \in MandiInputs,
          commodity \in CommodityInputs, quantity \in Quantities :
        \E res \in {execute_transfer_endpoint(market_state, state_history, Today,
                       sourceMandiId, destMandiId, commodity, quantity)} :
            /\ res.ok
            /\ Admit(res)
            /\ pend' = TransferLocals(market_state, Today, sourceMandiId,
                                      destMandiId, commodity, quantity)
            /\ state_history' = AppendHistory(state_history, res.record)
    /\ pc' = "history_appended"
    /\ before' = Store(market_state, state_history)
    /\ UNCHANGED <<data, BASE_DATA, reply, market_state, last, okCount>>

TransferSource ==
    /\ pc = "history_appended"
    /\ market_state' = TransferUpdateSource(market_state, pend)
    /\ pc' = "source_updated"
    /\ UNCHANGED <<data, BASE_DATA, reply, state_history, pend, last, before, okCount, calls>>

TransferDest ==
    /\ pc = "source_updated"
    /\ market_state' = TransferUpdateDest(market_state, pend)
    /\ pc' = "idle"
    /\ pend' = NoPend
    /\ okCount' = okCount + 1
    /\ last' = [op |-> "execute_transfer", ok |-> TRUE, err |-> "",
                mandi |-> pend.source_mandi_id, dest |-> pend.dest_mandi_id,
                commodity |-> pend.commodity_name, n |-> pend.quantity]
    /\ UNCHANGED <<data, BASE_DATA, reply, state_history, before, calls>>

\* GET /state-history
GetStateHistory ==
    /\ LoopFree
    /\ Budget
    /\ calls' = calls + 1
    /\ last' = [NoLast EXCEPT !.op = "get_state_history"]
    /\ before' = Store(market_state, state_history)
    /\ UNCHANGED <<data, BASE_DATA, reply, market_state, state_history, pc, pend, okCount>>

\* GET /live-state
GetLiveState ==
    /\ LoopFree
    /\ Budget
    /\ calls' = calls + 1
    /\ last' = [NoLast EXCEPT !.op = "get_live_state"]
    /\ before' = Store(market_state, state_history)
    /\ UNCHANGED <<data, BASE_DATA, reply, market_state, state_history, pc, pend, okCount>>

NextSteps ==
    \/ UpdateMarketSignals
    \/ TransferRejected
    \/ TransferAppend
    \/ TransferSource
    \/ TransferDest
    \/ ResetState
    \/ GetStateHistory
    \/ GetLiveState

SpecSteps == Init /\ [][NextSteps]_vars

\* ------------------------------------------------- the engines of server.py
\* both modules have loaded a baseline; no update has been made
InitEngines ==
    /\ data \in EngineBaselines
    /\ market_state = data
    /\ state_history = <<>>
    /\ pc = "idle"
    /\ pend = NoPend
    /\ last = NoLast
    /\ before = Store(market_state, state_history)
    /\ okCount = 0
    /\ calls = 0
    /\ BASE_DATA = data
    /\ reply = NoReply

\* The engines keep no state of their own: a response depends on BASE_DATA and
\* on the request only, so the model follows one request per behaviour.
FirstRequest == reply.op = "none"

GetMandiDetail ==
    /\ FirstRequest
    /\ \E mandi_id \in EngineInputs :
        \E res \in {get_mandi_detail(BASE_DATA, mandi_id)} :
            /\ BASE_DATA' = res.mandis
            /\ reply' = [NoReply EXCEPT !.op = "get_mandi_detail",
                                        !.mandiId = mandi_id,
                                        !.status = res.status,
                                        !.body = res.body]
    /\ UNCHANGED <<data, market_state, state_history, pc, pend, last, before, okCount, calls>>

RunSimulation ==
    /\ FirstRequest
    /\ \E mandiId \in EngineInputs, shockType \in ShockTypes,
          intensity \in Intensities, duration \in Durations :
        \E second_level_order \in
              IF mandiId \in DOMAIN BASE_DATA
              THEN Enumerations(SecondLevelIds(BASE_DATA[mandiId], BASE_DATA))
              ELSE {<<>>} :
            \E res \in {run_simulation(BASE_DATA, mandiId, shockType, intensity,
                                       duration, second_level_order)} :
                /\ BASE_DATA' = res.mandis
                /\ reply' = [op |-> "run_simulation", mandiId |-> mandiId,
                             shockType |-> shockType, intensity |-> intensity,
                             duration |-> duration, status |-> res.status,
                             body |-> res.body]
    /\ UNCHANGED <<data, market_state, state_history, pc, pend, last, before, okCount, calls>>

NextEngines ==
    \/ GetMandiDetail
    \/ RunSimulation

SpecEngines == InitEngines /\ [][NextEngines]_vars

\* ================================================================= properties
Mutations == {"market_update", "execute_transfer"}

Succeeded == last.op \in Mutations /\ last.ok
Failed == last.op \in Mutations /\ ~last.ok
Transferred == last.op = "execute_transfer" /\ last.ok

\* what a snapshot read shows for a commodity of a mandi
Shown(ms, mandi_id, commodity_name) ==
    get_commodity_from_mandi(ms[mandi_id], commodity_name)

IsPrefix(p, q) ==
    /\ Len(p) <= Len(q)
    /\ \A i \in 1..Len(p) : q[i] = p[i]

\* C1: since the last reset the history log holds exactly one entry per
\* update/transfer call that returned successfully; a successful call adds one
\* entry at the end and a failed call adds none.
C1_HistoryCountsSuccesses ==
    /\ Len(state_history) = okCount
    /\ Succeeded =>
          /\ Len(state_history) = Len(before.hist) + 1
          /\ IsPrefix(before.hist, state_history)
    /\ Failed => Len(state_history) = Len(before.hist)

C1_Witness ==
    /\ Failed
    /\ okCount = 1
    /\ Len(state_history) = 1

\* C2: between resets the log is append-only: every entry that was at index i
\* when an update or transfer arrived is still at index i, with every field
\* unchanged, when the call has returned, whether it succeeded or failed.
C2_AppendOnly ==
    last.op \in Mutations => IsPrefix(before.hist, state_history)

C2_Witness ==
    /\ Succeeded
    /\ Len(before.hist) = 1
    /\ Len(state_history) = 2
    /\ state_history[1] # state_history[2]

\* C3: after a successful transfer the live state shows the source's arrivals
\* of the commodity lowered by the quantity and the destination's arrivals of
\* it raised by the quantity (counted from 0 when the destination did not carry
\* the commodity), and exactly one transfer_execution entry has been appended.
C3_TransferMovesArrivals ==
    Transferred =>
        LET srcBefore == Shown(before.markets, last.mandi, last.commodity)
            srcAfter == Shown(market_state, last.mandi, last.commodity)
            dstBefore == Shown(before.markets, last.dest, last.commodity)
            dstAfter == Shown(market_state, last.dest, last.commodity)
        IN  /\ srcAfter.found
            /\ srcAfter.c.arrivals = srcBefore.c.arrivals - last.n
            /\ dstAfter.found
            /\ dstAfter.c.arrivals =
                  (IF dstBefore.found THEN dstBefore.c.arrivals ELSE 0) + last.n
            /\ Len(state_history) = Len(before.hist) + 1
            /\ state_history[Len(state_history)].type = "transfer_execution"

\* C4: the entry a successful transfer appends records a destination gain and
\* a source loss that both equal the transferred quantity.
C4_TransferConservation ==
    Transferred =>
        LET e == state_history[Len(state_history)]
        IN  /\ e.type = "transfer_execution"
            /\ e.quantity = last.n
            /\ e.destination.newArrivals - e.destination.previousArrivals = last.n
            /\ e.source.previousArrivals - e.source.newArrivals = last.n

C4_Witness ==
    /\ Transferred
    /\ state_history[Len(state_history)].destination.previousArrivals > 0

\* how many series entries the log accounts for in one mandi
TouchCount(hist, mandi_id) ==
    Cardinality({i \in 1..Len(hist) :
        hist[i].type = "market_update" /\ hist[i].mandiId = mandi_id})
    + Cardinality({i \in 1..Len(hist) :
        hist[i].type = "transfer_execution" /\ hist[i].sourceMandiId = mandi_id})
    + Cardinality({i \in 1..Len(hist) :
        hist[i].type = "transfer_execution" /\ hist[i].destMandiId = mandi_id})

\* a store in which every logged entry has reached every mandi it names
Untorn(store) ==
    /\ \A m \in MandiIds :
          /\ Len(store.markets[m].arrivalsHistory) =
                Len(data[m].arrivalsHistory) + TouchCount(store.hist, m)
          /\ Len(store.markets[m].priceHistory) =
                Len(data[m].priceHistory) + TouchCount(store.hist, m)
    /\ \A i \in 1..Len(store.hist) :
          (i = Len(store.hist) /\ store.hist[i].type = "transfer_execution") =>
              Shown(store.markets, store.hist[i].sourceMandiId,
                    store.hist[i].commodity).c.arrivals
                  = store.hist[i].source.newArrivals

Reads == {"get_state_history", "get_live_state"}

\* C5: a transfer is atomic for every other handler: the store a read returns,
\* and the store any other request starts from, never holds a transfer's
\* history entry or source update without its destination update.
C5_TransferAtomic ==
    /\ last.op \in Reads => Untorn(before)
    /\ Untorn(before)

C5_Witness ==
    /\ last.op \in Reads
    /\ before.hist # <<>>
    /\ before.hist[Len(before.hist)].type = "transfer_execution"
    /\ before.markets # data

\* C6: a failed update or transfer leaves every mandi and the log as they were.
C6_FailureChangesNothing ==
    Failed =>
        /\ market_state = before.markets
        /\ state_history = before.hist

C6_Witness ==
    /\ Failed
    /\ last.err = "Insufficient supply"
    /\ state_history # <<>>

\* C7: a transfer request whose source is its destination is rejected and
\* changes neither the log nor any mandi.
C7_SameMandiRejected ==
    \A m \in MandiInputs, c \in CommodityInputs, q \in Quantities :
        \E res \in {execute_transfer_endpoint(market_state, state_history,
                                              Today, m, m, c, q)} :
            /\ ~res.ok
            /\ res.markets = market_state
            /\ res.hist = state_history

C7_Witness ==
    /\ Failed
    /\ last.err = "Source and destination mandis cannot be the same"
    /\ state_history # <<>>
    /\ market_state = before.markets
    /\ state_history = before.hist

\* C8: a transfer succeeds only with 0 < quantity <= the source commodity's
\* live arrivals; a quantity <= 0 is refused, and a quantity above the live
\* arrivals is refused for insufficient supply.
C8_QuantityWithinLiveSupply ==
    \A src \in MandiInputs, dst \in MandiInputs, c \in CommodityInputs,
       q \in Quantities :
        \E res \in {execute_transfer_endpoint(market_state, state_history,
                                              Today, src, dst, c, q)} :
            /\ res.ok =>
                  /\ q > 0
                  /\ src \in MandiIds
                  /\ Shown(market_state, src, c).found
                  /\ q <= Shown(market_state, src, c).c.arrivals
            /\ q <= 0 =>
                  /\ ~res.ok
                  /\ res.err = "Transfer quantity must be greater than 0"
            /\ ( /\ q > 0
                 /\ src \in MandiIds
                 /\ dst \in MandiIds
                 /\ src # dst
                 /\ Shown(market_state, src, c).found
                 /\ q > Shown(market_state, src, c).c.arrivals ) =>
                  /\ ~res.ok
                  /\ res.err = "Insufficient supply"

\* a transfer of a quantity the baseline would cover is refused because an
\* earlier update lowered the live arrivals
C8_Witness ==
    /\ Failed
    /\ last.err = "Insufficient supply"
    /\ \E c \in CommodityInputs :
          /\ Shown(market_state, "m1", c).c.arrivals < MaxArrivals
          /\ Shown(data, "m1", c).c.arrivals >= MaxArrivals
          /\ ~execute_transfer_endpoint(market_state, state_history, Today,
                                        "m1", "m2", c, MaxArrivals).ok

\* C9: an arrivals update whose arrivals value is missing, not numeric, or not
\* positive fails, appends nothing and changes no mandi.
C9_ArrivalsMustBePositive ==
    \A m \in MandiInputs, c \in CommodityInputs, a \in ArrivalInputs :
        (a.kind # "int" \/ a.v <= 0) =>
            \E res \in {update_market_signals(market_state, state_history,
                                              Today, m, c, a)} :
                /\ ~res.ok
                /\ res.markets = market_state
                /\ res.hist = state_history

C9_Witness ==
    /\ Failed
    /\ last.op = "market_update"
    /\ last.err = "Arrivals must be greater than 0"
    /\ state_history # <<>>
    /\ state_history = before.hist

\* the mandi-level fields equal those of the mandi's listed primary record
Mirrored(mandi, i) ==
    /\ mandi.currentPrice = mandi.commodities[i].currentPrice
    /\ mandi.previousPrice = mandi.commodities[i].previousPrice
    /\ mandi.arrivals = mandi.commodities[i].arrivals
    /\ mandi.previousArrivals = mandi.commodities[i].previousArrivals
    /\ mandi.baseSupply = mandi.commodities[i].baseSupply

\* the mandis the last successful call wrote to
Touched == IF last.op = "execute_transfer" THEN {last.mandi, last.dest}
           ELSE {last.mandi}

\* C10: after a successful update or transfer that changes a mandi's primary
\* commodity record, the mandi-level currentPrice, previousPrice, arrivals,
\* previousArrivals and baseSupply equal that record's, on each side of a
\* transfer.
C10_PrimaryMirror ==
    Succeeded =>
        \A m \in Touched :
            LET i == FindCommodityIdx(market_state[m].commodities, last.commodity)
            IN  (i > 0 /\ market_state[m].commodities[i].isPrimary) =>
                    Mirrored(market_state[m], i)

\* a transfer whose destination lists the commodity as its primary one
C10_Witness ==
    /\ Transferred
    /\ LET i == FindCommodityIdx(market_state[last.dest].commodities,
                                 last.commodity)
       IN  /\ i > 0
           /\ market_state[last.dest].commodities[i].isPrimary
           /\ market_state[last.dest].arrivals
                 # before.markets[last.dest].arrivals

Updated == last.op = "market_update" /\ last.ok

\* C11: after a successful market update of (mandi, commodity, a) the live
\* snapshot of the mandi shows the commodity with arrivals a, currentPrice the
\* newPrice the call reported, previousArrivals the arrivals and previousPrice
\* the currentPrice the live state held just before the call (so it builds on
\* every earlier update, not on the baseline).
C11_LiveSnapshotAfterUpdate ==
    Updated =>
        LET snapshot == get_latest_state_for_mandi(market_state, last.mandi)
            now == get_commodity_from_mandi(snapshot.m, last.commodity)
            was == Shown(before.markets, last.mandi, last.commodity)
            reported == state_history[Len(state_history)]
        IN  /\ snapshot.found
            /\ now.found
            /\ now.c.arrivals = last.n
            /\ now.c.currentPrice = reported.newPrice
            /\ now.c.previousArrivals = was.c.arrivals
            /\ now.c.previousPrice = was.c.currentPrice

\* a second update of a listed commodity: what it finds differs from the
\* baseline, and what it writes differs from what it finds
C11_Witness ==
    /\ Updated
    /\ LET was == Shown(before.markets, last.mandi, last.commodity)
           base == Shown(data, last.mandi, last.commodity)
           now == Shown(market_state, last.mandi, last.commodity)
       IN  /\ was.c.arrivals # base.c.arrivals
           /\ was.c.currentPrice # base.c.currentPrice
           /\ now.c.arrivals # was.c.arrivals
           /\ now.c.currentPrice # was.c.currentPrice
           /\ now.c.previousPrice = was.c.currentPrice

\* the sequence q is the sequence p with exactly one entry added at its end
OneAppended(p, q) ==
    /\ Len(q) = Len(p) + 1
    /\ IsPrefix(p, q)

\* C13: a successful market update appends exactly one {date, price} entry to
\* the end of the target mandi's priceHistory and exactly one {date, arrivals}
\* entry to the end of its arrivalsHistory; a successful transfer does so for
\* the source and for the destination; every earlier entry keeps its position
\* and its values.
C13_SeriesAppendOne ==
    Succeeded =>
        \A m \in Touched :
            /\ OneAppended(before.markets[m].priceHistory,
                           market_state[m].priceHistory)
            /\ OneAppended(before.markets[m].arrivalsHistory,
                           market_state[m].arrivalsHistory)
            /\ DOMAIN market_state[m].priceHistory[
                    Len(market_state[m].priceHistory)] = {"date", "price"}
            /\ DOMAIN market_state[m].arrivalsHistory[
                    Len(market_state[m].arrivalsHistory)] = {"date", "arrivals"}
            /\ market_state[m].priceHistory[
                    Len(market_state[m].priceHistory)].date = Today
            /\ market_state[m].arrivalsHistory[
                    Len(market_state[m].arrivalsHistory)].date = Today

\* a transfer whose source series already hold an entry of an earlier call
C13_Witness ==
    /\ Transferred
    /\ Len(before.markets[last.mandi].priceHistory) = 2
    /\ Len(market_state[last.mandi].priceHistory) = 3
    /\ Len(market_state[last.dest].arrivalsHistory) = 2
    /\ market_state[last.mandi].arrivalsHistory[3].arrivals
          # market_state[last.mandi].arrivalsHistory[2].arrivals

\* the last request was a successful update of its mandi's primary commodity
PrimaryUpdated ==
    /\ Updated
    /\ LET i == FindCommodityIdx(market_state[last.mandi].commodities,
                                 last.commodity)
       IN  i > 0 /\ market_state[last.mandi].commodities[i].isPrimary

\* C12: after a successful market update of a mandi's primary commodity with
\* arrivals a, the mandi detail query for that mandi (GET /mandi/{id}) reports
\* arrivals a: the detail read path observes what the update path wrote.
C12_DetailShowsUpdate ==
    PrimaryUpdated =>
        /\ get_mandi_detail(BASE_DATA, last.mandi).status = 200
        /\ get_mandi_detail(BASE_DATA, last.mandi).body.arrivals = last.n

\* --------------------------------------------- properties of the engines
Detailed == reply.op = "get_mandi_detail" /\ reply.status = 200
Simulated == reply.op = "run_simulation" /\ reply.status = 200

\* the status the thresholds give a score
Classified(score, status) ==
    /\ status \in {"high_risk", "watch", "normal"}
    /\ status = "high_risk" <=> score > 65
    /\ status = "watch" <=> (score > 35 /\ score <= 65)
    /\ status = "normal" <=> score <= 35

\* C14: the stress classification uses strict thresholds: for every score s
\* of 0..100 the status is high_risk iff s > 65, watch iff 35 < s <= 65 and
\* normal iff s <= 35 (65 is watch, 66 high_risk, 35 normal, 36 watch), in the
\* classification itself and in every response that carries a score.
C14_StrictThresholds ==
    /\ \A s \in 0..100 : Classified(s, StatusOf(s))
    /\ StatusOf(65) = "watch" /\ StatusOf(66) = "high_risk"
    /\ StatusOf(35) = "normal" /\ StatusOf(36) = "watch"
    /\ Detailed => Classified(reply.body.stressScore, reply.body.status)
    /\ Simulated => Classified(reply.body.newStressScore, reply.body.newStatus)

\* a detail response whose score sits on the upper threshold, and a simulation
\* whose score sits on the lower one
C14_Witness ==
    \/ Detailed /\ reply.body.stressScore = 65 /\ reply.body.status = "watch"
    \/ Simulated /\ reply.body.newStressScore = 35
                 /\ reply.body.newStatus = "normal"

\* the components the rules give the fields of a detail response; prices in
\* quanta, the volatility in quanta as the response rounds it
RulePriceStress(b) ==
    IF b.previousPrice > 0
          /\ 100 * (b.currentPrice - b.previousPrice) > 8 * b.previousPrice
    THEN 35
    ELSE IF b.previousPrice > 0
          /\ 100 * (b.currentPrice - b.previousPrice) > 4 * b.previousPrice
    THEN 20
    ELSE 0

RuleSupplyStress(b) ==
    IF b.previousArrivals > 0
          /\ 100 * (b.arrivals - b.previousArrivals) < -10 * b.previousArrivals
    THEN 30
    ELSE IF b.previousArrivals > 0
          /\ 100 * (b.arrivals - b.previousArrivals) < -5 * b.previousArrivals
    THEN 15
    ELSE 0

RuleExternalStress(b) ==
    (IF b.rainFlag THEN 10 ELSE 0) + (IF b.festivalFlag THEN 10 ELSE 0)

\* C15: for every market snapshot stressScore is priceStress + supplyStress +
\* instabilityStress + externalStress clamped to 0..100, with priceStress 35
\* if priceChangePct > 8, 20 if > 4, else 0; supplyStress 30 if
\* arrivalChangePct < -10, 15 if < -5, else 0; instabilityStress 20 if
\* volatility > 10, else 0; externalStress 10 per set flag; a +10% price, -15%
\* arrivals, volatility 12, rain only snapshot scores 95, high_risk.
C15_StressScoreRule ==
    Detailed =>
        LET b == reply.body
            parts == b.stressBreakdown
            sum == parts.priceStress + parts.supplyStress
                   + parts.instabilityStress + parts.externalStress
        IN  /\ parts.priceStress = RulePriceStress(b)
            /\ parts.supplyStress = RuleSupplyStress(b)
            /\ parts.instabilityStress \in {0, 20}
            /\ b.volatility > 10 * Quantum => parts.instabilityStress = 20
            /\ b.volatility < 10 * Quantum => parts.instabilityStress = 0
            /\ parts.externalStress = RuleExternalStress(b)
            /\ b.stressScore = (IF sum > 100 THEN 100 ELSE sum)
            /\ b.stressScore \in 0..100
            /\ (/\ b.priceChangePct = 10 * Quantum
                /\ b.arrivalChangePct = -15 * Quantum
                /\ b.volatility = 12 * Quantum
                /\ b.rainFlag /\ ~b.festivalFlag)
                    => b.stressScore = 95 /\ b.status = "high_risk"

\* the snapshot of the example, and a snapshot whose sum of 105 is clamped
C15_Witness ==
    /\ Detailed
    /\ reply.body.priceChangePct = 10 * Quantum
    /\ reply.body.arrivalChangePct = -15 * Quantum
    /\ reply.body.volatility = 12 * Quantum
    /\ \/ reply.body.rainFlag /\ ~reply.body.festivalFlag
          /\ reply.body.stressScore = 95
       \/ reply.body.rainFlag /\ reply.body.festivalFlag
          /\ reply.body.stressScore = 100

\* C16: the stress engine and the simulation engine are read-only on their
\* inputs: after a detail query (enrich_mandi_with_stress,
\* calculate_stress_score) and after a simulation (simulate_shock) every
\* market of BASE_DATA has exactly the field values it had before; the
\* rainFlag / festivalFlag of the hypothetical stress calculation and the
\* projected price and arrivals are written to no real market.
C16_EnginesReadOnly ==
    /\ BASE_DATA = data
    /\ Simulated =>
        \A id \in DOMAIN BASE_DATA :
            /\ BASE_DATA[id].rainFlag = data[id].rainFlag
            /\ BASE_DATA[id].festivalFlag = data[id].festivalFlag
            /\ BASE_DATA[id].currentPrice = data[id].currentPrice
            /\ BASE_DATA[id].arrivals = data[id].arrivals

\* a rain simulation on a mandi that carries no rain flag, which projects
\* another price and other arrivals for it and reaches both ripple levels
C16_Witness ==
    /\ Simulated
    /\ reply.shockType = "rain"
    /\ ~data[reply.mandiId].rainFlag
    /\ reply.body.predictedPrice # reply.body.originalPrice
    /\ reply.body.predictedArrivals # reply.body.originalArrivals
    /\ \E i, j \in 1..Len(reply.body.affectedMandis) :
        /\ reply.body.affectedMandis[i].rippleLevel = 1
        /\ reply.body.affectedMandis[j].rippleLevel = 2

\* the price the simulation engine reports for a supply and a demand that
\* the market state engine priced
SimulationPrices(price, supply, demand) ==
    SimulatedPrice(price, Rat(supply, 1), Rat(demand, 1))

\* C17: the elasticity price rule is the same in the market state engine
\* (compute_new_price) and in the simulation engine (simulate_shock): both use
\* ELASTICITY = 0.4, both take the zero-supply branch exactly when supply <= 0
\* and then give exactly twice the old price whatever the demand, and for the
\* same old price, supply and demand both report the same price rounded to 2
\* decimals.
C17_SameElasticityRule ==
    /\ ElasticityNum * ServerElasticityDen = ServerElasticityNum * ElasticityDen
    /\ 10 * ElasticityNum = 4 * ElasticityDen
    /\ Updated =>
        LET r == state_history[Len(state_history)]
        IN  r.newPrice = SimulationPrices(r.previousPrice, r.newSupply,
                                          r.baseDemand)
    /\ Transferred =>
        LET r == state_history[Len(state_history)]
            was == Shown(before.markets, last.mandi, last.commodity)
        IN  /\ was.c.baseDemand > 0 =>
                    r.source.newPrice
                        = SimulationPrices(r.source.previousPrice,
                                           r.source.newArrivals,
                                           was.c.baseDemand)
            /\ r.source.newArrivals <= 0 =>
                    r.source.newPrice = 2 * r.source.previousPrice
    /\ \A m \in DOMAIN market_state :
        \A i \in 1..Len(market_state[m].commodities) :
            LET c == market_state[m].commodities[i]
            IN  \A supply \in {-1, 0, c.arrivals} :
                    /\ compute_new_price(c.currentPrice, supply, c.baseDemand)
                         = SimulationPrices(c.currentPrice, supply, c.baseDemand)
                    /\ supply <= 0 =>
                         SimulationPrices(c.currentPrice, supply, c.baseDemand)
                             = 2 * c.currentPrice

\* a transfer that empties its source, whose price doubles, while the
\* destination is priced by the power rule
C17_Witness ==
    /\ Transferred
    /\ LET r == state_history[Len(state_history)]
       IN  /\ r.source.newArrivals = 0
           /\ r.source.previousPrice > 0
           /\ r.source.newPrice = 2 * r.source.previousPrice
           /\ r.destination.newArrivals > 0

\* the ids of the affectedMandis entries of a level
LevelIds(affected, level) ==
    {affected[i].mandiId : i \in {j \in 1..Len(affected) :
                                    affected[j].rippleLevel = level}}

\* the markets of the file a mandi lists as connected
ConnectedTo(mandi) ==
    Range(Get(mandi, "connectedMandis", <<>>)) \cap DOMAIN data

\* C18: in the affectedMandis list of a simulation every entry has rippleLevel
\* 1 or 2; the level-1 entries are the markets listed as connected to the
\* target; the level-2 entries are the markets connected to some level-1
\* neighbour that are neither the target nor a level-1 neighbour; each market
\* appears at most once, even when two level-1 neighbours lead to it.
C18_RippleLevels ==
    Simulated =>
        LET affected == reply.body.affectedMandis
            first == LevelIds(affected, 1)
            second == LevelIds(affected, 2)
        IN  /\ \A i \in 1..Len(affected) : affected[i].rippleLevel \in {1, 2}
            /\ first = ConnectedTo(data[reply.mandiId])
            /\ second = {id \in DOMAIN data :
                            /\ id # reply.mandiId
                            /\ id \notin first
                            /\ \E n \in first : id \in ConnectedTo(data[n])}
            /\ \A i, j \in 1..Len(affected) :
                    affected[i].mandiId = affected[j].mandiId => i = j

\* a simulation with two level-1 neighbours that list each other and that
\* both lead to the same level-2 market
C18_Witness ==
    /\ Simulated
    /\ LET first == LevelIds(reply.body.affectedMandis, 1)
           second == LevelIds(reply.body.affectedMandis, 2)
       IN  \E a, b \in first : \E c \in second :
            /\ a # b
            /\ b \in ConnectedTo(data[a])
            /\ c \in ConnectedTo(data[a]) \cap ConnectedTo(data[b])

\* the share of the target's price impact a level takes, in tenths
ShareTenths(level) == IF level = 1 THEN 6 ELSE 3

\* |10 * priceChange - tenths * priceImpact| < 10: priceChange is the share of
\* the reported price impact up to 2-decimal rounding (one hundredth of a
\* percent)
DecaysBy(entry, priceImpact) ==
    Abs(10 * entry.priceChange - ShareTenths(entry.rippleLevel) * priceImpact)
        < 10

\* newPrice is originalPrice * (1 + priceChange / 100) rounded to 2 decimals,
\* computed from the reported priceChange: twice the distance is at most one
\* quantum
FollowsReportedChange(entry) ==
    Abs(2 * 100 * Quantum * entry.newPrice
          - 2 * entry.originalPrice * (100 * Quantum + entry.priceChange))
        <= 100 * Quantum

\* newPrice is originalPrice * (1 + r / 100) rounded to 2 decimals for a
\* percentage r whose rounding to 2 decimals is priceChange: r lies within
\* half a hundredth of priceChange, so the distance to the value computed from
\* priceChange is at most half a quantum plus originalPrice * 0.00005
FollowsUnroundedChange(entry) ==
    Abs(2 * 100 * Quantum * entry.newPrice
          - 2 * entry.originalPrice * (100 * Quantum + entry.priceChange))
        <= 100 * Quantum + entry.originalPrice

\* C19 as stated: every level-1 affected market reports priceChange 0.6 x P
\* and every level-2 one 0.3 x P for the target's price impact P (up to
\* 2-decimal rounding), and each affected market's newPrice equals its
\* originalPrice x (1 + priceChange / 100).
C19_RippleDecayAsStated ==
    Simulated =>
        \A i \in 1..Len(reply.body.affectedMandis) :
            /\ DecaysBy(reply.body.affectedMandis[i], reply.body.priceImpact)
            /\ FollowsReportedChange(reply.body.affectedMandis[i])

\* C19: every level-1 affected market reports priceChange 0.6 x P and every
\* level-2 one 0.3 x P (up to 2-decimal rounding), and each affected market's
\* newPrice is its originalPrice x (1 + r / 100) rounded to 2 decimals, where
\* r is the ripple percentage before it is rounded into priceChange; newPrice
\* is within half a hundredth plus originalPrice x 0.00005 of the value
\* computed from the reported priceChange.
C19_RippleDecay ==
    Simulated =>
        \A i \in 1..Len(reply.body.affectedMandis) :
            /\ DecaysBy(reply.body.affectedMandis[i], reply.body.priceImpact)
            /\ FollowsUnroundedChange(reply.body.affectedMandis[i])

\* a simulation with a price impact whose two levels carry different
\* changes, and with an affected market whose newPrice is not the price the
\* reported priceChange gives
C19_Witness ==
    /\ Simulated
    /\ reply.body.priceImpact > 0
    /\ \E i, j \in 1..Len(reply.body.affectedMandis) :
        /\ reply.body.affectedMandis[i].rippleLevel = 1
        /\ reply.body.affectedMandis[j].rippleLevel = 2
        /\ reply.body.affectedMandis[i].priceChange
             > reply.body.affectedMandis[j].priceChange
    /\ \E i \in 1..Len(reply.body.affectedMandis) :
        ~FollowsReportedChange(reply.body.affectedMandis[i])

DemandSpiked == Simulated /\ reply.shockType = "demand_spike"

\* round(new_demand, 0) of a demand spike on a mandi
SpikedDemand(mandi, intensity, duration) ==
    RoundRat(ApplyShock(mandi, "demand_spike", intensity, duration).new_demand)

\* C20 as stated: for a demand_spike shock with any intensity of 1..100 and
\* any duration of 1..30 the simulation returns predictedArrivals =
\* originalArrivals, supplyAfter = supplyBefore and demandAfter > demandBefore.
C20_DemandSpikeAsStated ==
    DemandSpiked =>
        /\ reply.body.predictedArrivals = reply.body.originalArrivals
        /\ reply.body.simulationParameters.supplyAfter
             = reply.body.simulationParameters.supplyBefore
        /\ reply.body.simulationParameters.demandAfter
             > reply.body.simulationParameters.demandBefore

\* C20: for a demand_spike shock with any intensity of 1..100 and any
\* duration of 1..30 the simulation returns predictedArrivals =
\* originalArrivals, supplyAfter = supplyBefore and demandAfter >=
\* demandBefore; demandAfter is demandBefore * (1 + intensity * duration /
\* 2000) rounded to a whole number, which is greater than demandBefore when
\* demandBefore * intensity * duration > 1000 and equal to it when that
\* product is below 1000.
C20_DemandSpike ==
    /\ DemandSpiked =>
        LET p == reply.body.simulationParameters
            product == p.demandBefore * reply.intensity * reply.duration
        IN  /\ reply.body.predictedArrivals = reply.body.originalArrivals
            /\ p.supplyAfter = p.supplyBefore
            /\ p.demandAfter >= p.demandBefore
            /\ product > 1000 => p.demandAfter > p.demandBefore
            /\ product < 1000 => p.demandAfter = p.demandBefore
    /\ FirstRequest =>
        \A id \in DOMAIN BASE_DATA :
            \A intensity \in 1..100, duration \in 1..30 :
                LET demand == Get(BASE_DATA[id], "baseDemand",
                                  BASE_DATA[id].arrivals)
                    after == SpikedDemand(BASE_DATA[id], intensity, duration)
                    product == demand * intensity * duration
                IN  /\ after >= demand
                    /\ product > 1000 => after > demand
                    /\ product < 1000 => after = demand

\* the demand spike of intensity 80 over 7 days, which raises the reported
\* demand and leaves arrivals and supply as they are
C20_Witness ==
    /\ DemandSpiked
    /\ reply.body.predictedArrivals = reply.body.originalArrivals
    /\ reply.intensity = 80 /\ reply.duration = 7
    /\ reply.body.simulationParameters.supplyAfter
         = reply.body.simulationParameters.supplyBefore
    /\ reply.body.simulationParameters.demandAfter
         > reply.body.simulationParameters.demandBefore

SupplyShocked == Simulated /\ reply.shockType \in SupplyShocks

\* C21: for every supply-type shock with intensity in 1..100 and duration in
\* 1..30 the supply reduction (intensity/100) * (duration/7) * 0.4 is at most
\* 0.40, so that the new supply is at least 60% of the base supply (and the
\* supplyAfter of the response at least 60% of its supplyBefore).
C21_SupplyFloor ==
    SupplyShocked =>
        LET shock == ApplyShock(data[reply.mandiId], reply.shockType,
                                reply.intensity, reply.duration)
            p == reply.body.simulationParameters
        IN  /\ reply.intensity * reply.duration * 4 <= 4 * 100 * 7
            /\ 10 * shock.new_supply.n >= 6 * shock.base_supply * shock.new_supply.d
            /\ 10 * p.supplyAfter >= 6 * p.supplyBefore

\* C22: a supply-type shock with intensity >= 1 and duration >= 1 on a market
\* with positive price, arrivals, base supply and base demand returns
\* predictedPrice > originalPrice and predictedArrivals < originalArrivals.
C22_SupplyShockRaisesPrice ==
    SupplyShocked =>
        LET mandi == data[reply.mandiId]
        IN  (/\ mandi.currentPrice > 0
             /\ mandi.arrivals > 0
             /\ Get(mandi, "baseSupply", mandi.arrivals) > 0
             /\ Get(mandi, "baseDemand", mandi.arrivals) > 0)
            => /\ reply.body.predictedPrice > reply.body.originalPrice
               /\ reply.body.predictedArrivals < reply.body.originalArrivals

\* =================================== server.py: the recommendation engine
\* variant: the first item of the list is taken, whatever its value
FirstListed(xs, field) == xs[1]

\* max(xs, key=lambda x: x[field]): the first item with the largest value
FirstLargest(xs, field) ==
    xs[CHOOSE i \in 1..Len(xs) :
          /\ \A j \in 1..Len(xs) : xs[j][field] <= xs[i][field]
          /\ \A j \in 1..(i - 1) : xs[j][field] < xs[i][field]]

\* int(x * num / den) of a stored number x >= 0
IntShare(x, num, den) == TruncRat(Rat(x * num, den))

\* "Rule 1: High Risk + Supply Stress -> Pull Stock from Surplus Neighbor"
PullStockRule(target_mandi, stress_score, breakdown, surplus_neighbors) ==
    IF stress_score > 65 /\ Get(breakdown, "supplyStress", 0) > 0
    THEN IF surplus_neighbors # <<>>
         THEN LET best_source == FirstLargest(surplus_neighbors, "arrivals")
              IN  <<[action |-> "Pull Stock from Surplus Neighbor",
                     priority |-> "high",
                     sourceMandi |-> best_source.name,
                     sourceMandiId |-> best_source.id,
                     destinationMandi |-> target_mandi.name,
                     destinationMandiId |-> target_mandi.id,
                     metrics |->
                        [sourceStress |-> best_source.stressScore,
                         sourceArrivals |-> best_source.arrivals,
                         targetStress |-> stress_score,
                         supplyStressContribution |-> breakdown.supplyStress]]>>
         ELSE <<[action |-> "Emergency Stock Release",
                 priority |-> "high",
                 sourceMandi |-> "Central Buffer Stock",
                 destinationMandi |-> target_mandi.name,
                 destinationMandiId |-> target_mandi.id,
                 metrics |->
                    [targetStress |-> stress_score,
                     supplyStressContribution |-> breakdown.supplyStress]]>>
    ELSE <<>>

\* "Rule 2: Surplus + Falling Prices -> Push Stock / Recommend Storage";
\* priceChangePct is the rounded figure, in hundredths of a percent
PushStockRule(target_mandi, stress_data, neighbors) ==
    IF stress_data.stressScore < 35 /\ stress_data.priceChangePct < -4 * Quantum
    THEN LET high_stress_neighbors ==
                SelectSeq(neighbors, LAMBDA n : n.stressScore > 50)
             storage ==
                [action |-> "Recommend Cold Storage",
                 priority |-> "medium",
                 sourceMandi |-> target_mandi.name,
                 metrics |->
                    [priceChange |-> stress_data.priceChangePct,
                     suggestedStorage |-> IntShare(target_mandi.arrivals, 2, 10)]]
         IN  IF high_stress_neighbors # <<>>
             THEN LET best_dest == FirstLargest(high_stress_neighbors,
                                                "stressScore")
                  IN  <<[action |-> "Push Stock to High Demand Nodes",
                         priority |-> "medium",
                         sourceMandi |-> target_mandi.name,
                         sourceMandiId |-> target_mandi.id,
                         destinationMandi |-> best_dest.name,
                         destinationMandiId |-> best_dest.id,
                         metrics |->
                            [priceChange |-> stress_data.priceChangePct,
                             destStress |-> best_dest.stressScore]],
                        storage>>
             ELSE <<storage>>
    ELSE <<>>

\* "Rule 3: Festival + Normal Supply -> Pre-buffer Creation"
PreBufferRule(target_mandi, breakdown) ==
    IF Get(target_mandi, "festivalFlag", FALSE)
       /\ Get(breakdown, "supplyStress", 0) = 0
    THEN <<[action |-> "Pre-buffer Creation",
            priority |-> "medium",
            destinationMandi |-> target_mandi.name,
            destinationMandiId |-> target_mandi.id,
            metrics |->
                [festivalActive |-> TRUE,
                 currentSupplyStress |-> Get(breakdown, "supplyStress", 0),
                 suggestedBuffer |-> IntShare(target_mandi.arrivals, 15, 100)]]>>
    ELSE <<>>

\* "Rule 4: Price Rise Without Supply Stress -> Monitor / Speculation Alert"
SpeculationRule(target_mandi, stress_data, breakdown) ==
    IF stress_data.priceChangePct > 6 * Quantum
       /\ Get(breakdown, "supplyStress", 0) = 0
    THEN <<[action |-> "Speculation Alert - Enhanced Monitoring",
            priority |-> "high",
            destinationMandi |-> target_mandi.name,
            destinationMandiId |-> target_mandi.id,
            metrics |->
                [priceChange |-> stress_data.priceChangePct,
                 supplyStress |-> Get(breakdown, "supplyStress", 0),
                 arrivalChange |-> stress_data.arrivalChangePct]]>>
    ELSE <<>>

\* "Always add a monitoring recommendation"
MonitoringRecommendation(target_mandi, stress_data) ==
    [action |-> "Continue Standard Monitoring",
     priority |-> "low",
     destinationMandi |-> target_mandi.name,
     metrics |->
        [currentStress |-> stress_data.stressScore,
         volatility |-> stress_data.volatility,
         status |-> stress_data.status]]

\* variant: the monitoring recommendation is appended before the rules run
AppendedMonitoringFirst(rule1, rule2, rule3, rule4, monitoring) ==
    <<monitoring>> \o rule1 \o rule2 \o rule3 \o rule4

\* recommendations after the appends of the rules, in the order they are made
Appended(rule1, rule2, rule3, rule4, monitoring) ==
    rule1 \o rule2 \o rule3 \o rule4 \o <<monitoring>>

\* generate_recommendations: the list, each rule appending to it in turn.  The
\* id (a fresh uuid) and the texts (reasoning, estimatedCost, stabilityGain)
\* of a recommendation decide nothing and are left out.
generate_recommendations(target_mandi, all_mandis) ==
    With([stress_data \in {calculate_stress_score(target_mandi)} |->
    With([enriched_mandis \in
            {[i \in 1..Len(all_mandis) |->
                enrich_mandi_with_stress(all_mandis[i]).enriched]} |->
    LET stress_score == stress_data.stressScore
        breakdown == stress_data.stressBreakdown
        connected_ids == Get(target_mandi, "connectedMandis", <<>>)
        neighbors ==
            SelectSeq(enriched_mandis, LAMBDA m : m.id \in Range(connected_ids))
        surplus_neighbors ==
            SelectSeq(neighbors,
                      LAMBDA n : n.stressScore < 35 /\ n.arrivalChangePct >= 0)
    IN  Appended(
            PullStockRule(target_mandi, stress_score, breakdown,
                          surplus_neighbors),
            PushStockRule(target_mandi, stress_data, neighbors),
            PreBufferRule(target_mandi, breakdown),
            SpeculationRule(target_mandi, stress_data, breakdown),
            MonitoringRecommendation(target_mandi, stress_data))])])

\* BASE_DATA["mandis"] as the list the file holds: its mandis in file order
FileOrder == <<"m1", "m2", "m3", "m4">>

MandiList(base) ==
    LET ids == InAllMandis(base, FileOrder)
    IN  [i \in 1..Len(ids) |-> base[ids[i]]]

\* rec["aiInsight"] = ai_insight for the high and medium priorities; insight
\* is what generate_ai_explanation returns: a text, or "none" for None (no
\* key, or the call failed)
WithAiInsight(rec, includeAiInsights, insight) ==
    [aiInsight |-> IF includeAiInsights /\ rec.priority \in {"high", "medium"}
                   THEN insight ELSE "none"] @@ rec

\* POST /recommend
get_recommendations(base, mandiId, includeAiInsights, insight) ==
    IF mandiId \notin DOMAIN base
    THEN [status |-> 404, body |-> NoBody, mandis |-> base]
    ELSE With([recommendations \in
                {generate_recommendations(base[mandiId], MandiList(base))} |->
         With([stress_data \in {calculate_stress_score(base[mandiId])} |->
            [status |-> 200,
             body |->
                [mandiId |-> base[mandiId].id,
                 mandiName |-> base[mandiId].name,
                 currentStressScore |-> stress_data.stressScore,
                 stressStatus |-> stress_data.status,
                 stressBreakdown |-> stress_data.stressBreakdown,
                 recommendations |->
                    [i \in 1..Len(recommendations) |->
                        WithAiInsight(recommendations[i], includeAiInsights,
                                      insight)]],
             mandis |-> base]])])

\* ============================================ graph_service.py: the graph
\* variant: a volatility of exactly 10 rupees already counts
GraphVolatilityFrom10(price_history) ==
    /\ Len(price_history) >= 2
    /\ LET prices == [i \in 1..Len(price_history) |->
                         Get(price_history[i], "price", 0)]
           len == Len(prices)
           total == SumOf(prices)
           squares == [i \in 1..len |->
                          (len * prices[i] - total) * (len * prices[i] - total)]
       IN  SumOf(squares) >= 10 * Quantum * 10 * Quantum * len * len * len

\* calculate_mandi_stress, "Volatility stress": the population standard
\* deviation of the prices is above 10 rupees;
\* sum((p - mean)^2) / len = sum((len*p - sum)^2) / len^3
GraphVolatilityAbove10(price_history) ==
    /\ Len(price_history) >= 2
    /\ LET prices == [i \in 1..Len(price_history) |->
                         Get(price_history[i], "price", 0)]
           len == Len(prices)
           total == SumOf(prices)
           squares == [i \in 1..len |->
                          (len * prices[i] - total) * (len * prices[i] - total)]
       IN  SumOf(squares) > 10 * Quantum * 10 * Quantum * len * len * len

\* calculate_mandi_stress of graph_service.py
calculate_mandi_stress(mandi) ==
    LET current_price == Get(mandi, "currentPrice", 0)
        previous_price == Get(mandi, "previousPrice", 0)
        arrivals == Get(mandi, "arrivals", 0)
        prev_arrivals == Get(mandi, "previousArrivals", 0)
        \* price_change_pct > 8, > 4
        price ==
            IF previous_price > 0
            THEN IF 100 * (current_price - previous_price) > 8 * previous_price
                 THEN 35
                 ELSE IF 100 * (current_price - previous_price)
                            > 4 * previous_price
                 THEN 20 ELSE 0
            ELSE 0
        \* arrival_change_pct < -10, < -5
        supply ==
            IF prev_arrivals > 0
            THEN IF 100 * (arrivals - prev_arrivals) < -10 * prev_arrivals
                 THEN 30
                 ELSE IF 100 * (arrivals - prev_arrivals) < -5 * prev_arrivals
                 THEN 15 ELSE 0
            ELSE 0
        instability ==
            IF GraphVolatilityAbove10(PriceHistoryOf(mandi)) THEN 20 ELSE 0
        external ==
            (IF Get(mandi, "rainFlag", FALSE) THEN 10 ELSE 0)
            + (IF Get(mandi, "festivalFlag", FALSE) THEN 10 ELSE 0)
        stress == price + supply + instability + external
    IN  IF stress > 100 THEN 100 ELSE IF stress < 0 THEN 0 ELSE stress

\* min(1.0, max(0.0, x)) of a rational
ClampUnit(x) ==
    IF x.n < 0 THEN Rat(0, 1) ELSE IF x.n > x.d THEN Rat(1, 1) ELSE x

\* c.get('edge_strength', 0.5), in hundredths
EdgeStrength(c) == Get(c, "edge_strength", 50)

\* the least index of a set of indices
FirstOf(hits) == CHOOSE i \in hits : \A j \in hits : i <= j

\* origin_impact * decay * edge_strength, decay in tenths
Decayed(origin_impact, decay, edge_strength) ==
    Rat(origin_impact.n * decay * edge_strength, origin_impact.d * 10 * 100)

\* propagate_shock, with decay_level1 = 0.6 and decay_level2 = 0.3
propagate_shock(origin_mandi, base_impacts, conn) ==
    LET origin_impact == Get(base_impacts, origin_mandi, Rat(1, 1))
        Joins(c, a, b) == (c.from = a /\ c.to = b) \/ (c.to = a /\ c.from = b)
        level1_neighbors ==
            {conn[i].to : i \in {j \in 1..Len(conn) :
                                    conn[j].from = origin_mandi}}
            \cup {conn[i].from : i \in {j \in 1..Len(conn) :
                                    /\ conn[j].from # origin_mandi
                                    /\ conn[j].to = origin_mandi}}
        Strength1(neighbor) ==
            LET hits == {i \in 1..Len(conn) :
                            Joins(conn[i], origin_mandi, neighbor)}
            IN  IF hits = {} THEN 50 ELSE EdgeStrength(conn[FirstOf(hits)])
        level2_neighbors ==
            {candidate \in
                UNION {{conn[i].to : i \in {j \in 1..Len(conn) :
                                              conn[j].from = l1}}
                       \cup {conn[i].from : i \in {j \in 1..Len(conn) :
                                              /\ conn[j].from # l1
                                              /\ conn[j].to = l1}} :
                       l1 \in level1_neighbors} :
                candidate # origin_mandi /\ candidate \notin level1_neighbors}
        Strength2(neighbor) ==
            LET hits == {i \in 1..Len(conn) :
                            \/ conn[i].from \in level1_neighbors
                               /\ conn[i].to = neighbor
                            \/ conn[i].to \in level1_neighbors
                               /\ conn[i].from = neighbor}
            IN  IF hits = {} THEN 50 ELSE EdgeStrength(conn[FirstOf(hits)])
    IN  [neighbor \in level2_neighbors |->
            ClampUnit(Decayed(origin_impact, 3, Strength2(neighbor)))]
        @@ [neighbor \in level1_neighbors |->
            ClampUnit(Decayed(origin_impact, 6, Strength1(neighbor)))]
        @@ [id \in {origin_mandi} |-> ClampUnit(origin_impact)]
        @@ base_impacts

\* "Get primary commodity info": the name and the price a node shows
PrimaryOf(m) ==
    LET commodities == Get(m, "commodities", <<>>)
        hits == {i \in 1..Len(commodities) :
                    Get(commodities[i], "isPrimary", FALSE)}
    IN  IF hits = {}
        THEN [name |-> Get(m, "commodity", "Unknown"),
              price |-> Get(m, "currentPrice", 0)]
        ELSE [name |-> Get(commodities[FirstOf(hits)], "name",
                           Get(m, "commodity", "Unknown")),
              price |-> Get(commodities[FirstOf(hits)], "currentPrice",
                            Get(m, "currentPrice", 0))]

\* build_graph_payload(origin_mandi) on the two files load_data reads; origin
\* "" stands for None.  impact is in hundredths: round(impact, 2).  The
\* coordinates of the circular layout are left out: nothing reads them.
build_graph_payload(mandi_data, connections, origin_mandi) ==
    LET mandis == MandiList(mandi_data)
        stress_impacts ==
            [id \in {mandis[i].id : i \in 1..Len(mandis)} |->
                Rat(calculate_mandi_stress(mandi_data[id]), 100)]
        base_impacts ==
            IF origin_mandi # "" /\ origin_mandi \in DOMAIN stress_impacts
            THEN propagate_shock(origin_mandi,
                                 [id \in {origin_mandi} |-> Rat(1, 1)]
                                    @@ stress_impacts,
                                 connections)
            ELSE stress_impacts
    IN  IF mandis = <<>> THEN [nodes |-> <<>>, edges |-> <<>>]
        ELSE [nodes |->
                [i \in 1..Len(mandis) |->
                    LET m == mandis[i]
                        impact == ClampUnit(Get(base_impacts, m.id, Rat(0, 1)))
                        msi == calculate_mandi_stress(m)
                    IN  [id |-> m.id,
                         name |-> Get(m, "name", m.id),
                         impact |-> RoundRat(Rat(100 * impact.n, impact.d)),
                         msi |-> msi,
                         status |-> IF msi > 65 THEN "high"
                                    ELSE IF msi > 35 THEN "watch"
                                    ELSE "normal",
                         primary |-> PrimaryOf(m).name,
                         price |-> PrimaryOf(m).price]],
              edges |->
                [i \in 1..Len(connections) |->
                    [from |-> Get(connections[i], "from", ""),
                     to |-> Get(connections[i], "to", ""),
                     strength |-> EdgeStrength(connections[i])]]]

\* GET /graph: the payload, each impact clamped to 0..1 once more
get_graph(mandi_data, connections, origin) ==
    LET payload == build_graph_payload(mandi_data, connections, origin)
    IN  [status |-> 200,
         body |->
            [payload EXCEPT !.nodes =
                [i \in 1..Len(payload.nodes) |->
                    [payload.nodes[i] EXCEPT !.impact =
                        IF @ < 0 THEN 0 ELSE IF @ > 100 THEN 100 ELSE @]]]]

\* connectivity.json: a chain m1 - m2 - m3 - m4, a diamond from m1 to m4 with
\* a connection to a mandi the other file does not hold, and no connection
\* at all (the file is missing); edge_strength is in hundredths
Connection(from, to, edge_strength) ==
    [from |-> from, to |-> to, edge_strength |-> edge_strength]

ConnectivityFiles ==
    {<<Connection("m1", "m2", 80), Connection("m2", "m3", 50),
       Connection("m3", "m4", 100)>>,
     <<Connection("m1", "m2", 80), Connection("m3", "m1", 50),
       Connection("m2", "m4", 100), Connection("m4", "m3", 50),
       Connection("m4", "m5", 80)>>,
     <<>>}

Origins == EngineInputs \cup {""}

GetGraph ==
    /\ FirstRequest
    /\ \E origin \in Origins, connections \in ConnectivityFiles :
        \E res \in {get_graph(data, connections, origin)} :
            reply' = [NoReply EXCEPT !.op = "get_graph",
                                     !.mandiId = origin,
                                     !.status = res.status,
                                     !.body = [connections |-> connections]
                                              @@ res.body]
    /\ UNCHANGED <<data, market_state, state_history, pc, pend, last, before, okCount, calls, BASE_DATA>>

\* ------------------------------- server.py: the transfer recommendations
\* calculate_commodity_surplus_deficit: balance_pct is balance / base_demand
\* * 100, compared with 10 and -10 here without the division; the rounded
\* percentages and the volatility it passes on are left out
calculate_commodity_surplus_deficit(commodity) ==
    LET supply == Get(commodity, "arrivals", 0)
        base_demand == Get(commodity, "baseDemand", supply)
        balance == supply - base_demand
        status ==
            IF base_demand > 0 /\ balance * 100 > 10 * base_demand
            THEN "surplus"
            ELSE IF base_demand > 0 /\ balance * 100 < -10 * base_demand
            THEN "deficit"
            ELSE "balanced"
        current == Get(commodity, "currentPrice", 0)
        previous == Get(commodity, "previousPrice", 0)
        \* price_change_pct > 5 and price_change_pct < -3, 0 being the
        \* percentage when there is no previous price
        rising == previous > 0 /\ (current - previous) * 100 > 5 * previous
        falling == previous > 0 /\ (current - previous) * 100 < -3 * previous
    IN  [commodity |-> Get(commodity, "name", "Unknown"),
         supply |-> supply,
         baseDemand |-> base_demand,
         balance |-> balance,
         status |-> status,
         suggestedAction |->
            CASE status = "surplus" -> "push_stock"
              [] status = "deficit" -> "pull_stock"
              [] OTHER -> "monitor",
         stabilizationSignal |->
            IF status = "deficit" /\ rising
            THEN "PULL_STOCK_URGENT"
            ELSE IF status = "surplus" /\ falling
            THEN "PUSH_STOCK_RECOMMENDED"
            ELSE IF status = "balanced" THEN "MONITOR_STABILITY"
            ELSE "STANDARD_OPERATIONS"]

\* the mandi-level fields as a commodity, for a mandi that lists none
PrimaryCommodityOf(mandi) ==
    [name |-> Get(mandi, "commodity", "Unknown"),
     arrivals |-> Get(mandi, "arrivals", 0),
     baseDemand |-> Get(mandi, "baseDemand", Get(mandi, "arrivals", 0)),
     currentPrice |-> Get(mandi, "currentPrice", 0),
     previousPrice |-> Get(mandi, "previousPrice", 0)]

get_mandi_surplus_deficit(mandi) ==
    LET listed == Get(mandi, "commodities", <<>>)
        commodities == IF listed = <<>> THEN <<PrimaryCommodityOf(mandi)>>
                       ELSE listed
        analyses == [i \in 1..Len(commodities) |->
                        calculate_commodity_surplus_deficit(commodities[i])]
        deficits == SelectSeq(analyses, LAMBDA a : a.status = "deficit")
        surpluses == SelectSeq(analyses, LAMBDA a : a.status = "surplus")
    IN  [mandiId |-> mandi.id,
         mandiName |-> mandi.name,
         overallStatus |->
            IF Len(deficits) > Len(surpluses) THEN "net_deficit"
            ELSE IF Len(surpluses) > Len(deficits) THEN "net_surplus"
            ELSE "balanced",
         commodityAnalyses |-> analyses,
         deficitCommodities |->
            [i \in 1..Len(deficits) |-> deficits[i].commodity],
         surplusCommodities |->
            [i \in 1..Len(surpluses) |-> surpluses[i].commodity]]

\* calculate_transport_cost, in hundredths of a rupee: the file of the model
\* holds neither transportCostPerKm nor baseTransportDistance, so the cost per
\* km is 2.5 and the distance 200 km
DefaultCostPerKm == 250
DefaultDistance == 200

calculate_transport_cost(source_id, dest_id, quantity) ==
    RoundRat(Rat(DefaultDistance * DefaultCostPerKm * quantity, 100))

\* get_mandi_price reads BASE_DATA; the commodity's name is compared as it is
get_mandi_price(base, mandi_id, commodity_name) ==
    IF mandi_id \notin DOMAIN base THEN 0
    ELSE LET m == base[mandi_id]
             coms == Get(m, "commodities", <<>>)
             hits == {i \in 1..Len(coms) : coms[i].name = commodity_name}
         IN  IF hits = {} THEN Get(m, "currentPrice", 0)
             ELSE Get(coms[CHOOSE i \in hits : \A j \in hits : i <= j],
                      "currentPrice", 0)

RECURSIVE Flattened(_)
Flattened(lists) ==
    IF lists = <<>> THEN <<>> ELSE Head(lists) \o Flattened(Tail(lists))

\* the entries of surplus_mandis (status "surplus") or of deficit_mandis
\* (status "deficit") in the order the two loops append them; the amount is
\* under the key "surplus" or "deficit" (a surplus is its own absolute value)
Imbalances(base, analyses, status) ==
    Flattened([i \in 1..Len(analyses) |->
        LET hits == SelectSeq(analyses[i].commodityAnalyses,
                              LAMBDA a : a.status = status)
        IN  [k \in 1..Len(hits) |->
                [key \in {status} |-> Abs(hits[k].balance)] @@
                [mandiId |-> analyses[i].mandiId,
                 mandiName |-> analyses[i].mandiName,
                 commodity |-> hits[k].commodity,
                 price |-> get_mandi_price(base, analyses[i].mandiId,
                                           hits[k].commodity)]]])

\* one recommendation; the uuid and the formatted texts are left out,
\* expectedStabilityImpact is in tenths of a percent, priceArbitrage and
\* transportCostValue in hundredths
TransferRecommendation(best_source, deficit) ==
    LET transfer_qty == IF best_source.surplus < deficit.deficit
                        THEN best_source.surplus ELSE deficit.deficit
        stability_impact ==
            IF deficit.deficit > 0
            THEN LET r == RoundRat(Rat(transfer_qty * 150, deficit.deficit))
                 IN  IF r > 200 THEN 200 ELSE r
            ELSE 0
        price_diff == deficit.price - best_source.price
    IN  [type |-> "commodity_transfer",
         sourceMandi |-> [id |-> best_source.mandiId,
                          name |-> best_source.mandiName],
         destinationMandi |-> [id |-> deficit.mandiId,
                               name |-> deficit.mandiName],
         commodity |-> deficit.commodity,
         suggestedQuantity |-> TruncRat(Rat(transfer_qty, 1)),
         transportCostValue |->
            calculate_transport_cost(best_source.mandiId, deficit.mandiId,
                                     transfer_qty),
         priceArbitrage |-> RoundRat(Rat(price_diff * transfer_qty, 100)),
         expectedStabilityImpact |-> stability_impact,
         priority |-> IF stability_impact > 100 THEN "high" ELSE "medium",
         metrics |-> [sourceSurplus |-> best_source.surplus,
                      destDeficit |-> deficit.deficit,
                      sourcePrice |-> best_source.price,
                      destPrice |-> deficit.price,
                      priceDifferential |-> price_diff]]

generate_transfer_recommendations(all_mandis, base) ==
    LET analyses == [i \in 1..Len(all_mandis) |->
                        get_mandi_surplus_deficit(all_mandis[i])]
        surplus_mandis == Imbalances(base, analyses, "surplus")
        deficit_mandis == Imbalances(base, analyses, "deficit")
    IN  Flattened([d \in 1..Len(deficit_mandis) |->
            LET deficit == deficit_mandis[d]
                matching_surplus ==
                    SelectSeq(surplus_mandis,
                              LAMBDA s : /\ s.commodity = deficit.commodity
                                         /\ s.mandiId # deficit.mandiId)
            IN  IF matching_surplus = <<>> THEN <<>>
                ELSE <<TransferRecommendation(
                            FirstLargest(matching_surplus, "surplus"),
                            deficit)>>])

\* GET /transfer-recommendations (generatedAt, the clock's reading, left out)
get_transfer_recommendations(base) ==
    LET recommendations ==
            generate_transfer_recommendations(MandiList(base), base)
    IN  [status |-> 200,
         body |-> [recommendations |-> recommendations,
                   totalRecommendations |-> Len(recommendations)]]

GetTransferRecommendations ==
    /\ FirstRequest
    /\ \E res \in {get_transfer_recommendations(BASE_DATA)} :
            reply' = [NoReply EXCEPT !.op = "get_transfer_recommendations",
                                     !.status = res.status,
                                     !.body = res.body]
    /\ UNCHANGED <<data, market_state, state_history, pc, pend, last, before, okCount, calls, BASE_DATA>>

\* ------------------------------------------------- the advisors' baselines
Insights == {"none", "text"}

\* A mandi in one of the conditions the rules tell apart:
\*   stressed   +10% price, -15% arrivals, 12 rupees volatility, rain: 95
\*   hot        +10% price, 12 rupees volatility, rain and festival: 75,
\*              with no supply stress
\*   festival   +7% price during a festival: 30
\*   rising     +7% price: 20
\*   falling    -5% price: 0
\*   glut       -5% price during a festival: 10
\*   shrinking  -3% arrivals, 10 rupees volatility: 0
\*   surplus    +25% arrivals: 0
AdviceMandi(id, profile, arrivals, connected) ==
    CASE profile = "stressed" ->
            EngineMandi(id, "Onion", 10000, 11000, 1000, 850, 900,
                        <<8800, 11200>>, TRUE, FALSE, connected)
      [] profile = "hot" ->
            EngineMandi(id, "Onion", 10000, 11000, arrivals, arrivals,
                        arrivals, <<8800, 11200>>, TRUE, TRUE, connected)
      [] profile = "festival" ->
            EngineMandi(id, "Onion", 10000, 10700, arrivals, arrivals,
                        arrivals, <<10000, 10700>>, FALSE, TRUE, connected)
      [] profile = "rising" ->
            EngineMandi(id, "Onion", 10000, 10700, arrivals, arrivals,
                        arrivals, <<10000, 10700>>, FALSE, FALSE, connected)
      [] profile = "falling" ->
            EngineMandi(id, "Onion", 10000, 9500, arrivals, arrivals,
                        arrivals, <<10000, 9500>>, FALSE, FALSE, connected)
      [] profile = "glut" ->
            EngineMandi(id, "Onion", 10000, 9500, arrivals, arrivals,
                        arrivals, <<10000, 9500>>, FALSE, TRUE, connected)
      [] profile = "shrinking" ->
            EngineMandi(id, "Onion", 10000, 10000, 1000, 970, 900,
                        <<9000, 11000>>, FALSE, FALSE, connected)
      [] profile = "surplus" ->
            EngineMandi(id, "Onion", 10000, 10000, (arrivals * 4) \div 5,
                        arrivals, (arrivals * 4) \div 5,
                        <<10000, 10000>>, FALSE, FALSE, connected)

Profiles1 ==
    {"stressed", "hot", "festival", "rising", "falling", "glut", "surplus"}
Profiles2 == {"surplus", "shrinking", "hot"}
Profiles3 == {"surplus", "hot", "stressed"}
Profiles4 == {"surplus", "shrinking"}

\* A baseline the JSON file may hold, for the advisors: m1 lists the three
\* others, m3 and m4 bring the same arrivals, above those of m2, and m4 lists
\* a mandi the file does not hold.
AdviceBaseline(p1, p2, p3, p4) ==
    [id \in EngineIds |->
        CASE id = "m1" -> AdviceMandi("m1", p1, 600, <<"m2", "m3", "m4">>)
          [] id = "m2" -> AdviceMandi("m2", p2, 500, <<"m1", "m3">>)
          [] id = "m3" -> AdviceMandi("m3", p3, 700, <<"m1", "m2">>)
          [] id = "m4" -> AdviceMandi("m4", p4, 700, <<"m1", "m5">>)]

\* A calm mandi that lists its commodities, the first being the primary one
ListingMandi(id, coms, connected) ==
    [EngineMandi(id, coms[1].name, coms[1].currentPrice, coms[1].currentPrice,
                 coms[1].arrivals, coms[1].arrivals, coms[1].baseDemand,
                 <<coms[1].currentPrice>>, FALSE, FALSE, connected)
        EXCEPT !.commodities = coms]

\* what m2 and m3 may lack of the 200 of Tomato they ask for: nothing, 10%
\* (balanced still), 20%, 40% and 75%
Shortfalls == {0, 20, 40, 80, 150}

\* A baseline the JSON file may hold, for the transfers: m1 has 100 of Tomato
\* to spare and m4, which lists no commodities, 30; m2 and m3 are short of
\* Tomato; m3 has 200 of Onion to spare and m2 is short of 100.
TransferBaseline(short2, short3) ==
    [id \in EngineIds |->
        CASE id = "m1" ->
                ListingMandi("m1",
                    <<Commodity("Onion", TRUE, 10000, 600, 600),
                      Commodity("Tomato", FALSE, 4000, 300, 200)>>,
                    <<"m2", "m3", "m4">>)
          [] id = "m2" ->
                ListingMandi("m2",
                    <<Commodity("Tomato", TRUE, 5000, 200 - short2, 200),
                      Commodity("Onion", FALSE, 12000, 400, 500)>>,
                    <<"m1", "m3">>)
          [] id = "m3" ->
                ListingMandi("m3",
                    <<Commodity("Onion", TRUE, 9000, 700, 500),
                      Commodity("Tomato", FALSE, 5500, 200 - short3, 200)>>,
                    <<"m1", "m2">>)
          [] id = "m4" ->
                EngineMandi("m4", "Tomato", 4500, 4500, 230, 230, 200,
                            <<4500>>, FALSE, FALSE, <<"m1", "m5">>)]

AdviceBaselines ==
    EngineBaselines
    \cup {AdviceBaseline(p1, p2, p3, p4) :
            p1 \in Profiles1, p2 \in Profiles2,
            p3 \in Profiles3, p4 \in Profiles4}
    \cup {TransferBaseline(short2, short3) :
            short2 \in Shortfalls, short3 \in Shortfalls}

\* ------------------------------------------------ the advisors of server.py
InitAdvice ==
    /\ data \in AdviceBaselines
    /\ market_state = data
    /\ state_history = <<>>
    /\ pc = "idle"
    /\ pend = NoPend
    /\ last = NoLast
    /\ before = Store(market_state, state_history)
    /\ okCount = 0
    /\ calls = 0
    /\ BASE_DATA = data
    /\ reply = NoReply

GetRecommendations ==
    /\ FirstRequest
    /\ \E mandiId \in EngineInputs, includeAiInsights \in BOOLEAN,
          insight \in Insights :
        \E res \in {get_recommendations(BASE_DATA, mandiId, includeAiInsights,
                                        insight)} :
            /\ BASE_DATA' = res.mandis
            /\ reply' = [NoReply EXCEPT !.op = "get_recommendations",
                                        !.mandiId = mandiId,
                                        !.status = res.status,
                                        !.body = res.body]
    /\ UNCHANGED <<data, market_state, state_history, pc, pend, last, before, okCount, calls>>

NextAdvice ==
    \/ GetRecommendations
    \/ GetGraph
    \/ GetTransferRecommendations

SpecAdvice == InitAdvice /\ [][NextAdvice]_vars

\* ======================================== properties of the advisors
Recommended == reply.op = "get_recommendations" /\ reply.status = 200

\* the rule a recommendation comes from; 5 for the monitoring one
RuleOf(rec) ==
    CASE rec.action \in {"Pull Stock from Surplus Neighbor",
                         "Emergency Stock Release"} -> 1
      [] rec.action \in {"Push Stock to High Demand Nodes",
                         "Recommend Cold Storage"} -> 2
      [] rec.action = "Pre-buffer Creation" -> 3
      [] rec.action = "Speculation Alert - Enhanced Monitoring" -> 4
      [] rec.action = "Continue Standard Monitoring" -> 5
      [] OTHER -> 0

\* C23: the list of recommendations is never empty; its last element is the
\* low-priority "Continue Standard Monitoring" recommendation, which carries
\* the target's current stress score, volatility and status; that
\* recommendation appears exactly once, and the recommendations of the rules
\* come before it in the order of the rules 1, 2, 3, 4.
C23_MonitoringLast ==
    Recommended =>
        LET recs == reply.body.recommendations
            n == Len(recs)
            stress_data == calculate_stress_score(data[reply.mandiId])
        IN  /\ n >= 1
            /\ recs[n].action = "Continue Standard Monitoring"
            /\ recs[n].priority = "low"
            /\ recs[n].metrics.currentStress = stress_data.stressScore
            /\ recs[n].metrics.volatility = stress_data.volatility
            /\ recs[n].metrics.status = stress_data.status
            /\ \A i \in 1..n : RuleOf(recs[i]) = 5 <=> i = n
            /\ \A i \in 1..n : RuleOf(recs[i]) \in 1..5
            /\ \A i, j \in 1..n : i < j => RuleOf(recs[i]) <= RuleOf(recs[j])

\* rules 2 and 3 both recommend, and the monitoring recommendation follows
C23_Witness ==
    /\ Recommended
    /\ LET recs == reply.body.recommendations
       IN  /\ Len(recs) = 4
           /\ RuleOf(recs[1]) = 2 /\ RuleOf(recs[2]) = 2
           /\ RuleOf(recs[3]) = 3 /\ RuleOf(recs[4]) = 5
           /\ recs[4].metrics.currentStress = 10

Graphed == reply.op = "get_graph" /\ reply.status = 200

\* C24: the two engines compute the same stress: for every market of the
\* file, calculate_mandi_stress of graph_service.py (the msi of its node of
\* the graph) is the stressScore calculate_stress_score of server.py returns.
C24_SameStress ==
    /\ \A id \in DOMAIN data :
        calculate_mandi_stress(data[id])
            = calculate_stress_score(data[id]).stressScore
    /\ Graphed =>
        \A i \in 1..Len(reply.body.nodes) :
            reply.body.nodes[i].msi
                = calculate_stress_score(data[reply.body.nodes[i].id]).stressScore

\* a graph with a market on the thresholds of 8% and -10% (a score of 35), a
\* market whose score is clamped to 100 and a market on a score of 65
C24_Witness ==
    /\ Graphed
    /\ \E i, j, k \in 1..Len(reply.body.nodes) :
        /\ reply.body.nodes[i].msi = 35
        /\ reply.body.nodes[j].msi = 100
        /\ reply.body.nodes[k].msi = 65

\* C25: when the graph is built with an origin that is a market of the file,
\* the origin's node has impact 1.0 and every other node an impact below 1.0.
C25_OriginAlone ==
    Graphed /\ reply.mandiId \in DOMAIN data =>
        \A i \in 1..Len(reply.body.nodes) :
            IF reply.body.nodes[i].id = reply.mandiId
            THEN reply.body.nodes[i].impact = 100
            ELSE reply.body.nodes[i].impact < 100

\* the connected neighbours of a mandi that count as surplus neighbours
SurplusNeighbours(mandi) ==
    {id \in ConnectedTo(mandi) :
        /\ calculate_stress_score(data[id]).stressScore < 35
        /\ calculate_stress_score(data[id]).arrivalChangePct >= 0}

\* C26: when the target's stressScore is above 65 and its supplyStress above
\* 0, exactly one recommendation of rule 1 is emitted, of high priority: "Pull
\* Stock from Surplus Neighbor", naming the connected neighbour with the
\* highest arrivals among those with stressScore < 35 and arrivalChangePct
\* >= 0, when there is such a neighbour, and "Emergency Stock Release" from
\* the central buffer otherwise; when the condition does not hold, neither of
\* the two is emitted.
C26_PullStockRule ==
    Recommended =>
        LET recs == reply.body.recommendations
            target == data[reply.mandiId]
            stress_data == calculate_stress_score(target)
            first == {i \in 1..Len(recs) : RuleOf(recs[i]) = 1}
            surplus == SurplusNeighbours(target)
        IN  IF stress_data.stressScore > 65
               /\ stress_data.stressBreakdown.supplyStress > 0
            THEN /\ Cardinality(first) = 1
                 /\ \A i \in first :
                        /\ recs[i].priority = "high"
                        /\ IF surplus # {}
                           THEN /\ recs[i].action
                                     = "Pull Stock from Surplus Neighbor"
                                /\ recs[i].sourceMandiId \in surplus
                                /\ recs[i].sourceMandi
                                     = data[recs[i].sourceMandiId].name
                                /\ \A id \in surplus :
                                     data[id].arrivals
                                       <= data[recs[i].sourceMandiId].arrivals
                           ELSE /\ recs[i].action = "Emergency Stock Release"
                                /\ recs[i].sourceMandi = "Central Buffer Stock"
            ELSE first = {}

\* stock is pulled from the fuller of two surplus neighbours, which is not the
\* one the file lists first
C26_Witness ==
    /\ Recommended
    /\ LET recs == reply.body.recommendations
           surplus == SurplusNeighbours(data[reply.mandiId])
       IN  /\ recs[1].action = "Pull Stock from Surplus Neighbor"
           /\ \E id \in surplus :
                data[id].arrivals < data[recs[1].sourceMandiId].arrivals
           /\ recs[1].sourceMandiId = "m3"
           /\ "m2" \in surplus

\* ============================================ properties of the live store
\* C27: arrivals never go negative: in every state the update and transfer
\* requests reach from the baseline, the arrivals of every commodity, the
\* arrivals of every mandi and every point of an arrivalsHistory are >= 0.
C27_ArrivalsNonNegative ==
    \A id \in DOMAIN market_state :
        LET mandi == market_state[id]
        IN  /\ mandi.arrivals >= 0
            /\ \A i \in 1..Len(mandi.commodities) :
                    mandi.commodities[i].arrivals >= 0
            /\ \A i \in 1..Len(mandi.arrivalsHistory) :
                    mandi.arrivalsHistory[i].arrivals >= 0

\* after an update, a transfer has taken all a mandi had of its primary
\* commodity
C27_Witness ==
    /\ Transferred
    /\ okCount = 2
    /\ state_history[1].type = "market_update"
    /\ \E id \in DOMAIN market_state :
        /\ market_state[id].arrivals = 0
        /\ \E i \in 1..Len(market_state[id].commodities) :
            market_state[id].commodities[i].arrivals = 0

\* what a history entry records about the commodities it touches
Touches(entry) ==
    IF entry.type = "market_update"
    THEN {[mandi |-> entry.mandiId, commodity |-> Lower(entry.commodity),
           previousPrice |-> entry.previousPrice,
           previousArrivals |-> entry.previousArrivals,
           newPrice |-> entry.newPrice, newArrivals |-> entry.newArrivals]}
    ELSE IF entry.type = "transfer_execution"
    THEN {[mandi |-> entry.sourceMandiId, commodity |-> Lower(entry.commodity),
           previousPrice |-> entry.source.previousPrice,
           previousArrivals |-> entry.source.previousArrivals,
           newPrice |-> entry.source.newPrice,
           newArrivals |-> entry.source.newArrivals],
          [mandi |-> entry.destMandiId, commodity |-> Lower(entry.commodity),
           previousPrice |-> entry.destination.previousPrice,
           previousArrivals |-> entry.destination.previousArrivals,
           newPrice |-> entry.destination.newPrice,
           newArrivals |-> entry.destination.newArrivals]}
    ELSE {}

\* the entries before the k-th that touch the commodity of a mandi
EarlierTouching(k, mandi, commodity) ==
    {j \in 1..(k - 1) :
        \E t \in Touches(state_history[j]) :
            t.mandi = mandi /\ t.commodity = commodity}

\* C28: the history log is a consistent chain per mandi and commodity: the
\* previousPrice and previousArrivals an entry records for a commodity of a
\* mandi are the newPrice and newArrivals of the most recent earlier entry
\* that touches it (a market_update, or either side of a
\* transfer_execution), or the baseline's values when no earlier entry does.
C28_HistoryChain ==
    \A k \in 1..Len(state_history) :
        \A t \in Touches(state_history[k]) :
            LET earlier == EarlierTouching(k, t.mandi, t.commodity)
                baseline == get_commodity_from_mandi(data[t.mandi], t.commodity)
            IN  IF earlier # {}
                THEN LET j == CHOOSE i \in earlier : \A h \in earlier : h <= i
                     IN  \E s \in Touches(state_history[j]) :
                            /\ s.mandi = t.mandi /\ s.commodity = t.commodity
                            /\ t.previousPrice = s.newPrice
                            /\ t.previousArrivals = s.newArrivals
                ELSE baseline.found =>
                        /\ t.previousPrice = baseline.c.currentPrice
                        /\ t.previousArrivals = baseline.c.arrivals


\* C29: a mandi's series track its mandi-level values: after a successful
\* update or transfer of any commodity of a mandi, the last entry of the
\* mandi's priceHistory carries the mandi-level currentPrice and the last
\* entry of its arrivalsHistory carries the mandi-level arrivals.
C29_SeriesTrackMandiLevel ==
    Succeeded =>
        \A m \in Touched :
            /\ market_state[m].priceHistory[
                    Len(market_state[m].priceHistory)].price
                  = market_state[m].currentPrice
            /\ market_state[m].arrivalsHistory[
                    Len(market_state[m].arrivalsHistory)].arrivals
                  = market_state[m].arrivals


\* ---- the transfer recommendations
TransferAdvised ==
    reply.op = "get_transfer_recommendations" /\ reply.status = 200

\* arrivals - baseDemand of a commodity in a mandi of the file: of the listed
\* record of that name, or of the mandi itself when it lists none
BalanceOf(mandi_id, commodity) ==
    LET m == BASE_DATA[mandi_id]
        hits == {i \in 1..Len(m.commodities) :
                    m.commodities[i].name = commodity}
    IN  IF m.commodities = <<>> THEN m.arrivals - m.baseDemand
        ELSE LET c == m.commodities[CHOOSE i \in hits : TRUE]
             IN  c.arrivals - c.baseDemand

\* the quantities suggested out of one mandi for one commodity
DrawnFrom(recs, mandi_id, commodity) ==
    LET drawing == SelectSeq(recs,
                        LAMBDA r : /\ r.sourceMandi.id = mandi_id
                                   /\ r.commodity = commodity)
    IN  SumOf([i \in 1..Len(drawing) |-> drawing[i].suggestedQuantity])

\* C30: in the list of transfer recommendations, what is suggested out of a
\* source mandi for a commodity adds up to no more than the source's surplus
\* (arrivals - baseDemand) of it; every recommendation names a source other
\* than its destination, a commodity the source has a surplus of and the
\* destination a deficit of, and suggests the smaller of that surplus and
\* that deficit.
C30_TransfersWithinSurplus ==
    TransferAdvised =>
        LET recs == reply.body.recommendations
        IN  \A i \in 1..Len(recs) :
                LET r == recs[i]
                    surplus == BalanceOf(r.sourceMandi.id, r.commodity)
                    deficit == -BalanceOf(r.destinationMandi.id, r.commodity)
                IN  /\ r.sourceMandi.id # r.destinationMandi.id
                    /\ surplus > 0
                    /\ deficit > 0
                    /\ r.suggestedQuantity =
                          (IF surplus < deficit THEN surplus ELSE deficit)
                    /\ DrawnFrom(recs, r.sourceMandi.id, r.commodity)
                          <= surplus

============================================================================
